---- MODULE Spec2Model ----
(***************************************************************************)
(* A model of the ds3 C SDK (src/src/ds3.c): the incremental header        *)
(* parser, the request factories and executor, and the XML codec.          *)
(*                                                                         *)
(* Representation.                                                         *)
(*   - A C string is a sequence of one-character strings.                  *)
(*   - A nullable pointer is NULL or Ptr(v).                               *)
(*   - A uint64_t is a canonical sequence of decimal digits (U64 values),  *)
(*     because the range 0 .. 2^64-1 does not fit the checker's integers.  *)
(*   - long / unsigned long are 64 bits wide (LP64).                       *)
(***************************************************************************)
EXTENDS Integers, Sequences, FiniteSets, TLC

VARIABLES
    response_data,  \* ds3_response_data of the exchange in progress
    delivered,      \* header lines the transport has handed to the parser
    hstate,         \* "recv" | "abort" (callback returned short) | "fault"
    xin,            \* codec input: a document description or an object list
    xout,           \* codec outcome
    xstate,         \* "idle" | "input" | "done"
    initialized,    \* the static flag of _init_curl
    curl_global,    \* libcurl's global state: "none" | "ok" | "failed"
    pc,             \* "idle" | "perform" | "returned" | "fault"
    call,           \* the operation in progress and its arguments
    wire,           \* body the server has yet to send
    received,       \* the operation's xml_blob: bytes load_xml_buff has collected
    res,            \* what curl_easy_perform returned
    result,         \* returned error and the caller's out-parameter
    did,            \* what the call has done so far
    sent,           \* what the executor signed and the headers it set
    fin,            \* a request factory and the arguments of a call of it
    fout,           \* the request that call returned
    send_buff,      \* ds3_bulk's ds3_xml_send_buff: buff, size, total_read
    uploaded,       \* what _ds3_send_xml_buff has supplied, callback by callback
    uin,            \* an endpoint, a path and a table of query parameters
    url             \* the URL built from them

hvars == <<response_data, delivered, hstate>>

xvars == <<xin, xout, xstate>>

avars == <<initialized, curl_global, pc, call, wire, received, res, result, did, sent>>

fvars == <<fin, fout>>

svars == <<send_buff, uploaded>>

uvars == <<uin, url>>

vars == <<hvars, xvars, avars, fvars, svars, uvars>>

----------------------------------------------------------------------------
(* Nullable pointers *)

NULL == [null |-> TRUE]
Ptr(v) == [null |-> FALSE, v |-> v]

\* The result of a step that may fault (dereference a null pointer)
Ok(v) == [fault |-> FALSE, v |-> v]

Fault == [fault |-> TRUE, v |-> <<>>]

----------------------------------------------------------------------------
(* glib / libc string helpers, over sequences of characters *)

IsSpace(c) == c \in {" ", "\t", "\n", "\r", "\f"}

DigitChars == <<"0", "1", "2", "3", "4", "5", "6", "7", "8", "9">>

IsDigit(c) == \E i \in 1..10 : DigitChars[i] = c

DigitVal(c) == (CHOOSE i \in 1..10 : DigitChars[i] = c) - 1

\* g_strchomp: removes trailing whitespace
RECURSIVE g_strchomp(_)
g_strchomp(s) ==
    IF s = <<>> THEN s
    ELSE IF IsSpace(s[Len(s)]) THEN g_strchomp(SubSeq(s, 1, Len(s) - 1))
    ELSE s

\* g_str_has_prefix
g_str_has_prefix(s, p) ==
    Len(s) >= Len(p) /\ SubSeq(s, 1, Len(p)) = p

\* strstr: index of the first occurrence of d in s, 0 when there is none
StrStr(s, d) ==
    LET hits == {i \in 1..(Len(s) - Len(d) + 1) : SubSeq(s, i, i + Len(d) - 1) = d}
    IN  IF hits = {} THEN 0 ELSE CHOOSE i \in hits : \A j \in hits : i <= j

RECURSIVE SplitRest(_, _, _)
SplitRest(rem, d, n) ==
    LET i == StrStr(rem, d)
    IN  IF i = 0 \/ n = 1 THEN <<rem>>
        ELSE <<SubSeq(rem, 1, i - 1)>>
                 \o SplitRest(SubSeq(rem, i + Len(d), Len(rem)), d, n - 1)

\* g_strsplit(string, delimiter, max_tokens): at most max_tokens pieces, the
\* last one holding the remainder; the empty string gives the empty vector.
g_strsplit(s, d, max_tokens) ==
    IF s = <<>> THEN <<>> ELSE SplitRest(s, d, max_tokens)

\* g_strjoinv(separator, vector)
RECURSIVE g_strjoinv(_, _)
g_strjoinv(sep, v) ==
    IF v = <<>> THEN <<>>
    ELSE IF Len(v) = 1 THEN v[1]
    ELSE v[1] \o sep \o g_strjoinv(sep, Tail(v))

RECURSIVE SkipSpace(_)
SkipSpace(s) ==
    IF s # <<>> /\ IsSpace(s[1]) THEN SkipSpace(Tail(s)) ELSE s

RECURSIVE DigitRun(_)
DigitRun(s) ==
    IF s # <<>> /\ IsDigit(s[1]) THEN <<s[1]>> \o DigitRun(Tail(s)) ELSE <<>>

RECURSIVE DecValue(_, _)
DecValue(ds, acc) ==
    IF ds = <<>> THEN acc ELSE DecValue(Tail(ds), acc * 10 + DigitVal(ds[1]))

\* g_ascii_strtoll(nptr, &endptr, 10) on a non-NULL string: leading white
\* space, an optional sign, then digits.  endptr is always written.
g_ascii_strtoll(s) ==
    LET t == SkipSpace(s)
        neg == t # <<>> /\ t[1] = "-"
        u == IF t # <<>> /\ t[1] \in {"-", "+"} THEN Tail(t) ELSE t
        v == DecValue(DigitRun(u), 0)
    IN  IF neg THEN 0 - v ELSE v

----------------------------------------------------------------------------
(* The response header table: g_hash_table_new_full(g_str_hash,            *)
(* g_str_equal, NULL, _ds3_free_response_header).  An entry keeps the key  *)
(* pointer of its first insertion; keyOk says whether that pointer still   *)
(* refers to live memory.                                                  *)

NewEntry(h) == [name |-> h.key, keyOk |-> TRUE, hdr |-> h]

\* g_hash_table_insert(headers, header->key, header).  On a key that is
\* already present the table keeps the old key pointer, stores the new value
\* and destroys the old value, which frees the old header's key string: the
\* key the table still points to.  A later insertion of the same name then
\* compares against freed memory, and may or may not find the entry.
g_hash_table_insert(tbl, h) ==
    LET same == {i \in 1..Len(tbl) : tbl[i].name = h.key}
        live == {i \in same : tbl[i].keyOk}
        Replaced(i) == [tbl EXCEPT ![i] = [name |-> h.key, keyOk |-> FALSE, hdr |-> h]]
    IN  IF same = {} THEN {Append(tbl, NewEntry(h))}
        ELSE {Replaced(i) : i \in same}
                 \cup (IF live = {} THEN {Append(tbl, NewEntry(h))} ELSE {})

----------------------------------------------------------------------------
(* The header callback *)

InitResponseData ==
    [status_code |-> 0, status_message |-> NULL, header_count |-> 0, headers |-> <<>>]

Consumed(rd, n) == [ret |-> n, rd |-> rd, fault |-> FALSE]

Faulted(rd) == [ret |-> 0, rd |-> rd, fault |-> TRUE]

\* A status-line branch that joins the message from the code token on
StatusLineBranch_JoinsFromCode(rd, header_buff, to_read) ==
    LET split_result == g_strsplit(header_buff, <<" ">>, 1000)
    IN  IF ~g_str_has_prefix(header_buff, <<"H", "T", "T", "P", "/", "1", ".", "1">>)
           \/ Len(split_result) < 2
           \/ g_ascii_strtoll(split_result[2]) = 0
        THEN {Consumed(rd, 0)}
        ELSE IF g_ascii_strtoll(split_result[2]) = 100 THEN {Consumed(rd, to_read)}
        ELSE {Consumed(
                 [rd EXCEPT
                     !.status_code = g_ascii_strtoll(split_result[2]),
                     !.status_message =
                         Ptr(g_strjoinv(<<" ">>, SubSeq(split_result, 2, Len(split_result)))),
                     !.header_count = rd.header_count + 1],
                 to_read)}

\* A status-line branch without the special case for 100
StatusLineBranch_Records100(rd, header_buff, to_read) ==
    LET split_result == g_strsplit(header_buff, <<" ">>, 1000)
    IN  IF ~g_str_has_prefix(header_buff, <<"H", "T", "T", "P", "/", "1", ".", "1">>)
           \/ Len(split_result) < 2
           \/ g_ascii_strtoll(split_result[2]) = 0
        THEN {Consumed(rd, 0)}
        ELSE {Consumed(
                 [rd EXCEPT
                     !.status_code = g_ascii_strtoll(split_result[2]),
                     !.status_message =
                         Ptr(g_strjoinv(<<" ">>, SubSeq(split_result, 3, Len(split_result)))),
                     !.header_count = rd.header_count + 1],
                 to_read)}

\* The status-line branch (header_count < 1)
StatusLineBranch(rd, header_buff, to_read) ==
    IF g_str_has_prefix(header_buff, <<"H", "T", "T", "P", "/", "1", ".", "1">>)
    THEN LET split_result == g_strsplit(header_buff, <<" ">>, 1000)
         IN  IF Len(split_result) < 2
             THEN \* g_ascii_strtoll(NULL, ...) returns 0 and leaves endpointer
                  \* uninitialised: the test reads an indeterminate pointer.
                  {Consumed(rd, 0), Faulted(rd)}
             ELSE LET status_code == g_ascii_strtoll(split_result[2])
                  IN  IF status_code = 0 THEN {Consumed(rd, 0)}
                      ELSE IF status_code = 100 THEN {Consumed(rd, to_read)}
                      ELSE {Consumed(
                               [rd EXCEPT
                                   !.status_code = status_code,
                                   !.status_message =
                                       Ptr(g_strjoinv(<<" ">>, SubSeq(split_result, 3, Len(split_result)))),
                                   !.header_count = rd.header_count + 1],
                               to_read)}
    ELSE {Consumed(rd, 0)}

\* The header branch (header_count >= 1)
HeaderBranch(rd, header_buff, to_read) ==
    LET split_result == g_strsplit(header_buff, <<":", " ">>, 2)
    IN  IF Len(split_result) < 2
        THEN \* header->value = g_strdup(NULL); strlen(header->value)
             {Faulted(rd)}
        ELSE LET header == [key |-> split_result[1], value |-> split_result[2]]
             IN  {Consumed([rd EXCEPT !.headers = t,
                                      !.header_count = rd.header_count + 1],
                           to_read)
                    : t \in g_hash_table_insert(rd.headers, header)}

\* A parser that takes the status-line branch for every line that starts
\* with the protocol name, whatever header_count is
_process_header_line_StatusAnywhere(rd, buffer) ==
    LET to_read == Len(buffer)
        header_buff == g_strchomp(buffer)
    IN  IF to_read < 2 THEN {Consumed(rd, 0)}
        ELSE IF Len(header_buff) = 0 THEN {Consumed(rd, to_read)}
        ELSE IF rd.header_count < 1
                \/ g_str_has_prefix(header_buff, <<"H", "T", "T", "P", "/", "1", ".", "1">>)
        THEN StatusLineBranch(rd, header_buff, to_read)
        ELSE HeaderBranch(rd, header_buff, to_read)

\* _process_header_line(buffer, size, nmemb, user_data): the set of outcomes
\* [ret, rd, fault] for one line of to_read = size * nmemb bytes.
_process_header_line(rd, buffer) ==
    LET to_read == Len(buffer)
        header_buff == g_strchomp(buffer)
    IN  IF to_read < 2 THEN {Consumed(rd, 0)}
        ELSE IF Len(header_buff) = 0 THEN {Consumed(rd, to_read)}
        ELSE IF rd.header_count < 1 THEN StatusLineBranch(rd, header_buff, to_read)
        ELSE HeaderBranch(rd, header_buff, to_read)

----------------------------------------------------------------------------
(* Header lines the transport may deliver *)

MaxLines == 4

HTTP11 == <<"H", "T", "T", "P", "/", "1", ".", "1">>
CRLF == <<"\r", "\n">>
wOK == <<"O", "K">>
wContinue == <<"C", "o", "n", "t", "i", "n", "u", "e">>
wCreated == <<"C", "r", "e", "a", "t", "e", "d">>
wNot == <<"N", "o", "t">>
wFound == <<"F", "o", "u", "n", "d">>

RECURSIVE DecChars(_)
DecChars(n) ==
    IF n < 10 THEN <<DigitChars[n + 1]>>
    ELSE DecChars(n \div 10) \o <<DigitChars[(n % 10) + 1]>>

RECURSIVE SpacedWords(_)
SpacedWords(ws) ==
    IF ws = <<>> THEN <<>> ELSE <<" ">> \o ws[1] \o SpacedWords(Tail(ws))

\* "HTTP/1.1 <code> <words...>\r\n"
StatusLine(code, ws) == HTTP11 \o <<" ">> \o DecChars(code) \o SpacedWords(ws) \o CRLF

\* "<name>: <value>\r\n"
HeaderLine(name, value) == name \o <<":", " ">> \o value \o CRLF

StatusShapes ==
    { [code |-> 200, words |-> <<wOK>>],
      [code |-> 201, words |-> <<wCreated>>],
      [code |-> 404, words |-> <<wNot, wFound>>] }

ContinueLine == StatusLine(100, <<wContinue>>)

HeaderShapes ==
    { [name |-> <<"A">>, value |-> <<"1">>],
      [name |-> <<"A">>, value |-> <<"2">>],
      [name |-> <<"B">>, value |-> <<"x", ":", " ", "y">>] }

MalformedLines ==
    { <<"I", "C", "Y", " ", "2", "0", "0", " ", "O", "K", "\r", "\n">>,
      HTTP11 \o <<" ", "a", "b", "c", " ", "X">> \o CRLF,
      HTTP11 \o <<" ", "2", "x", "x", " ", "O", "K">> \o CRLF,
      HTTP11 \o CRLF,
      <<"J", "u", "n", "k">> \o CRLF }

HdrLines ==
    {StatusLine(s.code, s.words) : s \in StatusShapes}
        \cup {ContinueLine, CRLF}
        \cup {HeaderLine(h.name, h.value) : h \in HeaderShapes}
        \cup MalformedLines

----------------------------------------------------------------------------
(* The header parser driven line by line, as curl drives it within one     *)
(* exchange: a short return aborts the transfer.                           *)

HdrIdle ==
    /\ response_data = InitResponseData
    /\ delivered = <<>>
    /\ hstate = "recv"

HdrDeliver(l) ==
    /\ hstate = "recv"
    /\ Len(delivered) < MaxLines
    /\ \E r \in _process_header_line(response_data, l) :
        /\ response_data' = r.rd
        /\ delivered' = Append(delivered, l)
        /\ hstate' = IF r.fault THEN "fault"
                     ELSE IF r.ret # Len(l) THEN "abort"
                     ELSE "recv"
    /\ UNCHANGED <<xvars, avars, fvars, svars, uvars>>

HdrNext == \E l \in HdrLines : HdrDeliver(l)

----------------------------------------------------------------------------
(* uint64_t values as canonical decimal digit sequences (most significant  *)
(* digit first, no leading zero except for zero itself)                    *)

RECURSIVE Norm(_)
Norm(ds) ==
    IF Len(ds) > 1 /\ ds[1] = 0 THEN Norm(Tail(ds))
    ELSE IF ds = <<>> THEN <<0>> ELSE ds

RECURSIVE LexLess(_, _)
LexLess(a, b) ==
    IF a = <<>> THEN FALSE
    ELSE IF a[1] # b[1] THEN a[1] < b[1]
    ELSE LexLess(Tail(a), Tail(b))

\* a < b, for canonical a and b
DecLess(a, b) ==
    Len(a) < Len(b) \/ (Len(a) = Len(b) /\ LexLess(a, b))

RECURSIVE ZeroPad(_, _)
ZeroPad(ds, n) == IF Len(ds) >= n THEN ds ELSE ZeroPad(<<0>> \o ds, n)

\* digits of a - b (same length, a >= b), least significant digit last
RECURSIVE SubDigits(_, _, _)
SubDigits(a, b, borrow) ==
    IF a = <<>> THEN <<>>
    ELSE LET n == Len(a)
             d == a[n] - b[n] - borrow
         IN  SubDigits(SubSeq(a, 1, n - 1), SubSeq(b, 1, n - 1), IF d < 0 THEN 1 ELSE 0)
                 \o <<IF d < 0 THEN d + 10 ELSE d>>

\* a - b, for canonical a >= b
DecSub(a, b) == Norm(SubDigits(a, ZeroPad(b, Len(a)), 0))

TwoTo63 == <<9, 2, 2, 3, 3, 7, 2, 0, 3, 6, 8, 5, 4, 7, 7, 5, 8, 0, 8>>
TwoTo64 == <<1, 8, 4, 4, 6, 7, 4, 4, 0, 7, 3, 7, 0, 9, 5, 5, 1, 6, 1, 6>>
ULONG_MAX == <<1, 8, 4, 4, 6, 7, 4, 4, 0, 7, 3, 7, 0, 9, 5, 5, 1, 6, 1, 5>>

U64Zero == <<0>>

DigitsToChars(ds) == [i \in 1..Len(ds) |-> DigitChars[ds[i] + 1]]

CharsToDigits(cs) == [i \in 1..Len(cs) |-> DigitVal(cs[i])]

\* A conversion that takes no sign: a text that starts with one has no digits
strtoul_RejectsSign(s) ==
    LET run == DigitRun(SkipSpace(s))
        mag == Norm(CharsToDigits(run))
    IN  IF run = <<>> THEN U64Zero
        ELSE IF DecLess(ULONG_MAX, mag) THEN ULONG_MAX
        ELSE mag

\* strtoul(text, NULL, 10) on a non-NULL string, unsigned long of 64 bits:
\* white space, an optional sign, digits; no digits gives 0; a magnitude
\* above ULONG_MAX gives ULONG_MAX; a minus sign negates modulo 2^64.
strtoul(s) ==
    LET t == SkipSpace(s)
        neg == t # <<>> /\ t[1] = "-"
        u == IF t # <<>> /\ t[1] \in {"-", "+"} THEN Tail(t) ELSE t
        run == DigitRun(u)
        mag == Norm(CharsToDigits(run))
    IN  IF run = <<>> THEN U64Zero
        ELSE IF DecLess(ULONG_MAX, mag) THEN ULONG_MAX
        ELSE IF neg /\ mag # U64Zero THEN DecSub(TwoTo64, mag)
        ELSE mag

\* g_snprintf(size_buff, 21, "%ld", obj.size): the uint64_t is printed as a
\* signed long, and at most 20 characters are kept.
FormatSize(u) ==
    LET full == IF DecLess(u, TwoTo63) THEN DigitsToChars(u)
                ELSE <<"-">> \o DigitsToChars(DecSub(TwoTo64, u))
    IN  SubSeq(full, 1, IF Len(full) > 20 THEN 20 ELSE Len(full))


----------------------------------------------------------------------------
(* libxml2 documents.  A node is [name, attrs, kids, content]; a text node *)
(* has the name "text" and carries content; an attribute is [name, kids],  *)
(* its value being the text nodes under it.  A serialized document is a    *)
(* sequence of tokens, the unit in which bodies travel in this model.      *)

Element(name, attrs, kids) ==
    [name |-> name, attrs |-> attrs, kids |-> kids, content |-> <<>>]

Text(content) ==
    [name |-> "text", attrs |-> <<>>, kids |-> <<>>, content |-> content]

IsText(n) == n.name = "text"

\* xmlSetProp(node, name, value) on a node that has no such attribute yet
xmlSetProp(node, name, value) ==
    [node EXCEPT !.attrs = Append(@, [name |-> name, kids |-> <<Text(value)>>])]

\* Attr: an attribute as the parser builds it; an empty value has no children
Attr(name, value) ==
    [name |-> name, kids |-> IF value = <<>> THEN <<>> ELSE <<Text(value)>>]

\* xmlNodeListGetString(doc, list, 1): the concatenated text of the list,
\* NULL when the list holds no text.
RECURSIVE ListText(_)
ListText(list) ==
    IF list = <<>> THEN <<>>
    ELSE (IF IsText(list[1]) THEN list[1].content ELSE <<>>) \o ListText(Tail(list))

xmlNodeListGetString(list) ==
    IF \E i \in 1..Len(list) : IsText(list[i]) THEN Ptr(ListText(list)) ELSE NULL

\* xmlEscapeContent / xmlAttrSerializeTxtContent: the markup characters of a
\* text leave the dump as entity references
EntityOf(c) ==
    IF c = "&" THEN <<"&", "a", "m", "p", ";">>
    ELSE IF c = "<" THEN <<"&", "l", "t", ";">>
    ELSE IF c = ">" THEN <<"&", "g", "t", ";">>
    ELSE IF c = "\"" THEN <<"&", "q", "u", "o", "t", ";">>
    ELSE <<c>>

RECURSIVE xmlEscape(_)
xmlEscape(text) ==
    IF text = <<>> THEN <<>> ELSE EntityOf(text[1]) \o xmlEscape(Tail(text))

EscapedChars == {"&", "<", ">", "\""}

\* The parser's reading of character data: entity references are replaced,
\* a bare markup character makes the document ill-formed
RECURSIVE xmlUnescape(_)
xmlUnescape(data) ==
    IF data = <<>> THEN Ok(<<>>)
    ELSE LET hit == {c \in EscapedChars : g_str_has_prefix(data, EntityOf(c))}
         IN  IF hit # {}
             THEN LET c == CHOOSE x \in hit : TRUE
                      rest == xmlUnescape(SubSeq(data, Len(EntityOf(c)) + 1, Len(data)))
                  IN  IF rest.fault THEN Fault ELSE Ok(<<c>> \o rest.v)
             ELSE IF data[1] \in {"&", "<"} THEN Fault
             ELSE LET rest == xmlUnescape(Tail(data))
                  IN  IF rest.fault THEN Fault ELSE Ok(<<data[1]>> \o rest.v)

\* The attributes of a start tag as written: name="escaped value"
DumpAttrs(attrs) ==
    [i \in 1..Len(attrs) |-> [name |-> attrs[i].name, value |-> xmlEscape(ListText(attrs[i].kids))]]

\* The attributes of a start tag as read back
ParseAttrs(written) ==
    IF \E i \in 1..Len(written) : xmlUnescape(written[i].value).fault
    THEN Fault
    ELSE Ok([i \in 1..Len(written) |-> Attr(written[i].name, xmlUnescape(written[i].value).v)])

DeclTok == [t |-> "decl"]
OpenTok(n) == [t |-> "open", name |-> n.name, attrs |-> DumpAttrs(n.attrs)]
EmptyTok(n) == [t |-> "empty", name |-> n.name, attrs |-> DumpAttrs(n.attrs)]
CloseTok(n) == [t |-> "close", name |-> n.name]
TextTok(c) == [t |-> "text", content |-> xmlEscape(c)]
JunkTok == [t |-> "junk"]

\* The line break and indentation the formatted dump puts before a child
Indent(depth) == <<"\n">> \o [i \in 1..(2 * depth) |-> " "]

\* xmlNodeDumpOutput: format = TRUE indents the children of an element that
\* has no text child.
RECURSIVE DumpNode(_, _, _), DumpKids(_, _, _, _)
DumpNode(n, format, depth) ==
    IF IsText(n) THEN <<TextTok(n.content)>>
    ELSE IF n.kids = <<>> THEN <<EmptyTok(n)>>
    ELSE LET pretty == format /\ \A i \in 1..Len(n.kids) : ~IsText(n.kids[i])
         IN  <<OpenTok(n)>>
                 \o DumpKids(n.kids, format, depth + 1, pretty)
                 \o (IF pretty THEN <<TextTok(Indent(depth))>> ELSE <<>>)
                 \o <<CloseTok(n)>>

DumpKids(kids, format, depth, pretty) ==
    IF kids = <<>> THEN <<>>
    ELSE (IF pretty THEN <<TextTok(Indent(depth))>> ELSE <<>>)
             \o DumpNode(kids[1], format, depth)
             \o DumpKids(Tail(kids), format, depth, pretty)

\* xmlDocDumpFormatMemory(doc, &buff, &size, format)
xmlDocDumpFormatMemory(root, format) == <<DeclTok>> \o DumpNode(root, format, 0)

\* What a server sends: the document without declaration or formatting
Serialize(root) == DumpNode(root, FALSE, 0)

ParseFail == [ok |-> FALSE, nodes |-> <<>>, next |-> 0]

\* Content of an element from token i on, up to its close tag
RECURSIVE ParseContent(_, _, _)
ParseContent(toks, i, acc) ==
    IF i > Len(toks) THEN ParseFail
    ELSE LET tk == toks[i]
         IN  IF tk.t = "close" THEN [ok |-> TRUE, nodes |-> acc, next |-> i]
             ELSE IF tk.t = "text"
                  THEN LET c == xmlUnescape(tk.content)
                       IN  IF c.fault THEN ParseFail
                           ELSE ParseContent(toks, i + 1, Append(acc, Text(c.v)))
             ELSE IF tk.t = "empty"
                  THEN LET a == ParseAttrs(tk.attrs)
                       IN  IF a.fault THEN ParseFail
                           ELSE ParseContent(toks, i + 1, Append(acc, Element(tk.name, a.v, <<>>)))
             ELSE IF tk.t = "open"
                  THEN LET a == ParseAttrs(tk.attrs)
                           inner == ParseContent(toks, i + 1, <<>>)
                       IN  IF ~a.fault /\ inner.ok /\ toks[inner.next].name = tk.name
                           THEN ParseContent(toks, inner.next + 1,
                                             Append(acc, Element(tk.name, a.v, inner.nodes)))
                           ELSE ParseFail
             ELSE ParseFail

\* xmlParseMemory(data, len): NULL unless the bytes are one well-formed
\* document: an optional declaration, one root element, nothing else.
xmlParseMemory(toks) ==
    LET body == IF toks # <<>> /\ toks[1].t = "decl" THEN Tail(toks) ELSE toks
        \* a close token appended lets ParseContent read the top level
        top == ParseContent(Append(body, [t |-> "close", name |-> "#document"]), 1, <<>>)
    IN  IF top.ok /\ top.next = Len(body) + 1 /\ Len(top.nodes) = 1 /\ ~IsText(top.nodes[1])
        THEN Ptr(top.nodes[1])
        ELSE NULL


----------------------------------------------------------------------------
(* Errors and call outcomes *)

\* _ds3_create_error(code, message); a message is its fixed text followed
\* by whatever was appended to it
_ds3_create_error(code, text, appended) ==
    Ptr([code |-> code, message |-> [text |-> text, appended |-> appended]])

\* What a call leaves behind: the returned error, the out-parameter (NULL
\* while unwritten) and whether the call faulted instead of returning.
Outcome(error, response) == [error |-> error, response |-> response, fault |-> FALSE]

FaultOutcome == [error |-> NULL, response |-> NULL, fault |-> TRUE]

\* xml_blob->data is not NUL-terminated: g_strconcat reads on past the body
\* until it meets a zero byte.  The bytes it may pick up:
OverreadTails == {<<>>, <<JunkTok>>}

\* A GByteArray that never received bytes has data == NULL, which ends
\* g_strconcat's argument list.
BlobAsCString(blob) ==
    IF blob = <<>> THEN {<<>>} ELSE {blob \o tail : tail \in OverreadTails}

\* An INVALID_XML error that leaves the response out of its message
InvalidXml_OmitsBody(text, blob) ==
    {Outcome(_ds3_create_error("DS3_ERROR_INVALID_XML", text, <<>>), NULL)}

InvalidXml(text, blob) ==
    {Outcome(_ds3_create_error("DS3_ERROR_INVALID_XML", text, m), NULL)
        : m \in BlobAsCString(blob)}

----------------------------------------------------------------------------
(* Service listing decode *)

ZeroBucket ==
    [creation_date |-> NULL, creation_date_size |-> 0, name |-> NULL, name_size |-> 0]

ZeroOwner == [name |-> NULL, name_size |-> 0, id |-> NULL, id_size |-> 0]

\* The inner loop of _parse_buckets over the children of one child of Buckets
RECURSIVE ParseBucketFields(_, _)
ParseBucketFields(kids, bucket) ==
    IF kids = <<>> THEN Ok(bucket)
    ELSE LET data_ptr == kids[1]
             text == xmlNodeListGetString(data_ptr.kids)
         IN  IF data_ptr.name = "CreationDate"
             THEN IF text = NULL THEN Fault   \* strlen(NULL)
                  ELSE ParseBucketFields(Tail(kids),
                           [bucket EXCEPT !.creation_date = text,
                                          !.creation_date_size = Len(text.v)])
             ELSE IF data_ptr.name = "Name"
             THEN IF text = NULL THEN Fault   \* strlen(NULL)
                  ELSE ParseBucketFields(Tail(kids),
                           [bucket EXCEPT !.name = text, !.name_size = Len(text.v)])
             ELSE ParseBucketFields(Tail(kids), bucket)

\* The outer loop of _parse_buckets: one array element per child node of the
\* Buckets element, whatever the child's name.
RECURSIVE BucketsLoop(_, _)
BucketsLoop(kids, array) ==
    IF kids = <<>> THEN Ok(array)
    ELSE LET bucket == ParseBucketFields(kids[1].kids, ZeroBucket)
         IN  IF bucket.fault THEN Fault
             ELSE BucketsLoop(Tail(kids), Append(array, bucket.v))

\* _parse_buckets(doc, buckets_node, response)
_parse_buckets(buckets_node, response) ==
    LET array == BucketsLoop(buckets_node.kids, <<>>)
    IN  IF array.fault THEN Fault
        ELSE Ok([response EXCEPT !.num_buckets = Len(array.v), !.buckets = array.v])

RECURSIVE OwnerLoop(_, _)
OwnerLoop(kids, owner) ==
    IF kids = <<>> THEN Ok(owner)
    ELSE LET child_node == kids[1]
             text == xmlNodeListGetString(child_node.kids)
         IN  IF child_node.name = "DisplayName"
             THEN IF text = NULL THEN Fault   \* strlen(NULL)
                  ELSE OwnerLoop(Tail(kids),
                           [owner EXCEPT !.name = text, !.name_size = Len(text.v)])
             ELSE IF child_node.name = "ID"
             THEN IF text = NULL THEN Fault   \* strlen(NULL)
                  ELSE OwnerLoop(Tail(kids),
                           [owner EXCEPT !.id = text, !.id_size = Len(text.v)])
             ELSE OwnerLoop(Tail(kids), owner)

\* _parse_owner(doc, owner_node)
_parse_owner(owner_node) == OwnerLoop(owner_node.kids, ZeroOwner)

ZeroServiceResponse == [buckets |-> <<>>, num_buckets |-> 0, owner |-> NULL]

\* The loop of ds3_get_service over the children of the root
RECURSIVE ServiceLoop(_, _)
ServiceLoop(kids, response) ==
    IF kids = <<>> THEN Ok(response)
    ELSE LET child_node == kids[1]
         IN  IF child_node.name = "Buckets"
             THEN LET r == _parse_buckets(child_node, response)
                  IN  IF r.fault THEN Fault ELSE ServiceLoop(Tail(kids), r.v)
             ELSE IF child_node.name = "Owner"
             THEN LET owner == _parse_owner(child_node)
                  IN  IF owner.fault THEN Fault
                      ELSE ServiceLoop(Tail(kids), [response EXCEPT !.owner = Ptr(owner.v)])
             ELSE ServiceLoop(Tail(kids), response)

\* ds3_get_service from xmlParseMemory on: the outcomes for a received body
DecodeService(xml_blob) ==
    LET doc == xmlParseMemory(xml_blob)
    IN  IF doc = NULL
        THEN InvalidXml("Failed to parse response document.  The actual response is: ", xml_blob)
        ELSE IF doc.v.name # "ListAllMyBucketsResult"
        THEN InvalidXml("Expected the root element to be 'ListAllMyBucketsResult'.  The actual response is: ", xml_blob)
        ELSE LET response == ServiceLoop(doc.v.kids, ZeroServiceResponse)
             IN  IF response.fault THEN {FaultOutcome}
                 ELSE {Outcome(NULL, Ptr(response.v))}


----------------------------------------------------------------------------
(* Bucket listing decode *)

ZeroObject ==
    [name |-> NULL, name_size |-> 0, etag |-> NULL, etag_size |-> 0,
     last_modified |-> NULL, last_modified_size |-> 0,
     storage_class |-> NULL, storage_class_size |-> 0,
     size |-> U64Zero, owner |-> NULL]

\* field = g_strdup(text); field_size = strlen(text);
SetString(rec, field, text) ==
    [rec EXCEPT ![field] = text, ![field \o "_size"] = Len(text.v)]

\* The loop of _parse_object over the children of a Contents element
RECURSIVE ObjectLoop(_, _)
ObjectLoop(kids, object) ==
    IF kids = <<>> THEN Ok(object)
    ELSE LET child_node == kids[1]
             text == xmlNodeListGetString(child_node.kids)
             rest == Tail(kids)
         IN  IF child_node.name = "Key"
             THEN IF text = NULL THEN Fault   \* strlen(NULL)
                  ELSE ObjectLoop(rest, SetString(object, "name", text))
             ELSE IF child_node.name \in {"ETag", "LastModified", "StorageClass"}
             THEN IF text = NULL THEN ObjectLoop(rest, object)
                  ELSE ObjectLoop(rest,
                           SetString(object,
                                     CASE child_node.name = "ETag" -> "etag"
                                       [] child_node.name = "LastModified" -> "last_modified"
                                       [] OTHER -> "storage_class",
                                     text))
             ELSE IF child_node.name = "Size"
             THEN IF text = NULL THEN Fault   \* strtoul(NULL, NULL, 10)
                  ELSE ObjectLoop(rest, [object EXCEPT !.size = strtoul(text.v)])
             ELSE IF child_node.name = "Owner"
             THEN LET owner == _parse_owner(child_node)
                  IN  IF owner.fault THEN Fault
                      ELSE ObjectLoop(rest, [object EXCEPT !.owner = Ptr(owner.v)])
             ELSE ObjectLoop(rest, object)

\* _parse_object(doc, contents_node)
_parse_object(contents_node) == ObjectLoop(contents_node.kids, ZeroObject)

ZeroBucketResponse ==
    [creation_date |-> NULL, creation_date_size |-> 0, is_truncated |-> FALSE,
     marker |-> NULL, marker_size |-> 0, max_keys |-> U64Zero,
     name |-> NULL, name_size |-> 0, delimiter |-> NULL, delimiter_size |-> 0,
     next_marker |-> NULL, next_marker_size |-> 0, prefix |-> NULL, prefix_size |-> 0,
     objects |-> <<>>, num_objects |-> 0]

\* strncmp(text, "true", 4) == 0
IsTrueText(text) ==
    Len(text) >= 4 /\ SubSeq(text, 1, 4) = <<"t", "r", "u", "e">>

BucketStringField(name) ==
    CASE name = "CreationDate" -> "creation_date"
      [] name = "Marker" -> "marker"
      [] name = "Name" -> "name"
      [] name = "Delimiter" -> "delimiter"
      [] name = "NextMarker" -> "next_marker"
      [] OTHER -> "prefix"

\* The loop of ds3_get_bucket over the children of the root; object_array
\* collects the Contents entries.
RECURSIVE BucketLoop(_, _, _)
BucketLoop(kids, response, object_array) ==
    IF kids = <<>>
    THEN Ok([response EXCEPT !.objects = object_array, !.num_objects = Len(object_array)])
    ELSE LET child_node == kids[1]
             text == xmlNodeListGetString(child_node.kids)
             rest == Tail(kids)
         IN  IF child_node.name = "Contents"
             THEN LET object == _parse_object(child_node)
                  IN  IF object.fault THEN Fault
                      ELSE BucketLoop(rest, response, Append(object_array, object.v))
             ELSE IF child_node.name \in {"CreationDate", "Marker", "Name", "Delimiter",
                                          "NextMarker", "Prefix"}
             THEN IF text = NULL THEN BucketLoop(rest, response, object_array)
                  ELSE BucketLoop(rest,
                           SetString(response, BucketStringField(child_node.name), text),
                           object_array)
             ELSE IF child_node.name = "IsTruncated"
             THEN IF text = NULL THEN BucketLoop(rest, response, object_array)
                  ELSE BucketLoop(rest,
                           [response EXCEPT !.is_truncated = IsTrueText(text.v)],
                           object_array)
             ELSE IF child_node.name = "MaxKeys"
             THEN IF text = NULL THEN BucketLoop(rest, response, object_array)
                  ELSE BucketLoop(rest, [response EXCEPT !.max_keys = strtoul(text.v)],
                                  object_array)
             ELSE BucketLoop(rest, response, object_array)

\* ds3_get_bucket from xmlParseMemory on
DecodeBucket(xml_blob) ==
    LET doc == xmlParseMemory(xml_blob)
    IN  IF doc = NULL
        THEN InvalidXml("Failed to parse response document.  The actual response is: ", xml_blob)
        ELSE IF doc.v.name # "ListBucketResult"
        THEN InvalidXml("Expected the root element to be 'ListBucketsResult'.  The actual response is: ", xml_blob)
        ELSE LET response == BucketLoop(doc.v.kids, ZeroBucketResponse, <<>>)
             IN  IF response.fault THEN {FaultOutcome}
                 ELSE {Outcome(NULL, Ptr(response.v))}

----------------------------------------------------------------------------
(* Bulk job manifest: encode and decode *)

ZeroBulkObject == [name |-> NULL, name_size |-> 0, size |-> U64Zero]

ZeroBulkObjectList ==
    [list |-> <<>>, size |-> 0, server_id |-> NULL, server_id_size |-> 0,
     chunk_number |-> U64Zero]

ZeroBulkResponse == [job_id |-> NULL, job_id_size |-> 0, list |-> <<>>, list_size |-> 0]

\* The attribute loop of _parse_bulk_object
RECURSIVE BulkObjectAttrs(_, _)
BulkObjectAttrs(attrs, response) ==
    IF attrs = <<>> THEN response
    ELSE LET attribute == attrs[1]
             text == xmlNodeListGetString(attribute.kids)
         IN  IF attribute.name = "Name" /\ text # NULL
             THEN BulkObjectAttrs(Tail(attrs), SetString(response, "name", text))
             ELSE IF attribute.name = "Size" /\ text # NULL
             THEN BulkObjectAttrs(Tail(attrs), [response EXCEPT !.size = strtoul(text.v)])
             ELSE BulkObjectAttrs(Tail(attrs), response)

\* _parse_bulk_object(doc, object_node)
_parse_bulk_object(object_node) == BulkObjectAttrs(object_node.attrs, ZeroBulkObject)

RECURSIVE BulkObjectsAttrs(_, _)
BulkObjectsAttrs(attrs, response) ==
    IF attrs = <<>> THEN response
    ELSE LET attribute == attrs[1]
             text == xmlNodeListGetString(attribute.kids)
         IN  IF attribute.name = "ServerId" /\ text # NULL
             THEN BulkObjectsAttrs(Tail(attrs), SetString(response, "server_id", text))
             ELSE IF attribute.name = "ChunkNumber" /\ text # NULL
             THEN BulkObjectsAttrs(Tail(attrs),
                                   [response EXCEPT !.chunk_number = strtoul(text.v)])
             ELSE BulkObjectsAttrs(Tail(attrs), response)

RECURSIVE BulkObjectsKids(_, _)
BulkObjectsKids(kids, object_array) ==
    IF kids = <<>> THEN object_array
    ELSE IF kids[1].name = "Object"
    THEN BulkObjectsKids(Tail(kids), Append(object_array, _parse_bulk_object(kids[1])))
    ELSE BulkObjectsKids(Tail(kids), object_array)

\* _parse_bulk_objects(doc, objects_node)
_parse_bulk_objects(objects_node) ==
    LET object_array == BulkObjectsKids(objects_node.kids, <<>>)
    IN  [BulkObjectsAttrs(objects_node.attrs, ZeroBulkObjectList)
            EXCEPT !.list = object_array, !.size = Len(object_array)]

RECURSIVE BulkRootAttrs(_, _)
BulkRootAttrs(attrs, response) ==
    IF attrs = <<>> THEN response
    ELSE LET attribute == attrs[1]
             text == xmlNodeListGetString(attribute.kids)
         IN  IF attribute.name = "JobId" /\ text # NULL
             THEN BulkRootAttrs(Tail(attrs), SetString(response, "job_id", text))
             ELSE BulkRootAttrs(Tail(attrs), response)

\* ds3_bulk's child loop keeping the first Objects element only
RECURSIVE BulkRootKids_FirstChunkOnly(_, _)
BulkRootKids_FirstChunkOnly(kids, objects_array) ==
    IF kids = <<>> THEN objects_array
    ELSE IF kids[1].name = "Objects" /\ objects_array = <<>>
    THEN BulkRootKids_FirstChunkOnly(Tail(kids),
                                     Append(objects_array, _parse_bulk_objects(kids[1])))
    ELSE BulkRootKids_FirstChunkOnly(Tail(kids), objects_array)

\* The child loop of ds3_bulk over the root element
RECURSIVE BulkRootKids(_, _)
BulkRootKids(kids, objects_array) ==
    IF kids = <<>> THEN objects_array
    ELSE IF kids[1].name = "Objects"
    THEN BulkRootKids(Tail(kids), Append(objects_array, _parse_bulk_objects(kids[1])))
    ELSE BulkRootKids(Tail(kids), objects_array)

\* ds3_bulk from xmlParseMemory on (the transport having succeeded)
DecodeBulk(xml_blob) ==
    LET doc == xmlParseMemory(xml_blob)
    IN  IF doc = NULL
        THEN InvalidXml("Failed to parse response document.  The actual response is: ", xml_blob)
        ELSE IF doc.v.name # "MasterObjectList"
        THEN InvalidXml("Expected the root element to be 'MasterObjectList'.  The actual response is: ", xml_blob)
        ELSE LET objects_array == BulkRootKids(doc.v.kids, <<>>)
                 response == [BulkRootAttrs(doc.v.attrs, ZeroBulkResponse)
                                 EXCEPT !.list = objects_array,
                                        !.list_size = Len(objects_array)]
             IN  {Outcome(NULL, Ptr(response))}

\* The loop of ds3_bulk that adds one Object element per list entry
RECURSIVE EncodeObjects(_, _)
EncodeObjects(list, objects_node) ==
    IF list = <<>> THEN objects_node
    ELSE LET obj == list[1]
             size_buff == FormatSize(obj.size)
             object_node == xmlSetProp(xmlSetProp(Element("Object", <<>>, <<>>),
                                                  "Name", obj.name.v),
                                       "Size", size_buff)
         IN  EncodeObjects(Tail(list),
                           [objects_node EXCEPT !.kids = Append(@, object_node)])

\* ds3_bulk: the request body built from the object list, as dumped
EncodeBulk(obj_list) ==
    LET objects_node == EncodeObjects(SubSeq(obj_list.list, 1, obj_list.size),
                                      Element("Objects", <<>>, <<>>))
        root_node == Element("MasterObjectList", <<>>, <<objects_node>>)
    IN  xmlDocDumpFormatMemory(root_node, TRUE)


----------------------------------------------------------------------------
(* The codec on its own: documents a server may send, object lists a       *)
(* caller may submit                                                       *)

MaxKids == 2
MaxObjs == 2

SeqsUpTo(S, n) == UNION {[1..k -> S] : k \in 0..n}

\* What a Buckets element may hold: Bucket elements, the white space of an
\* indented document, an element this version does not know
BucketsChildKinds ==
    { [k |-> "bucket", name |-> <<"b", "1">>, date |-> <<"2", "0", "1", "5">>],
      [k |-> "bucket", name |-> <<"b", "2">>, date |-> <<"2", "0", "1", "6">>],
      [k |-> "bucket", name |-> <<>>, date |-> <<"2", "0", "1", "5">>],
      [k |-> "blank"],
      [k |-> "unknown"] }

OwnerKinds ==
    { [id |-> <<"1">>, name |-> <<"m", "e">>],
      [id |-> <<"4", "2">>, name |-> <<"y", "o", "u">>] }

\* <tag>text</tag>, or <tag/> when the text is empty
Leaf(tag, text) ==
    Element(tag, <<>>, IF text = <<>> THEN <<>> ELSE <<Text(text)>>)

BucketsChildNode(c) ==
    IF c.k = "bucket"
    THEN Element("Bucket", <<>>, <<Leaf("Name", c.name), Leaf("CreationDate", c.date)>>)
    ELSE IF c.k = "blank" THEN Text(<<"\n", " ">>)
    ELSE Element("Region", <<>>, <<Text(<<"x">>)>>)

ServiceDoc(d) ==
    Element("ListAllMyBucketsResult", <<>>,
        << Element("Owner", <<>>, <<Leaf("ID", d.owner.id), Leaf("DisplayName", d.owner.name)>>),
           Element("Buckets", <<>>, [i \in 1..Len(d.entries) |-> BucketsChildNode(d.entries[i])]) >>)

ServiceInputs ==
    { [kind |-> "service", owner |-> o, entries |-> e]
        : o \in OwnerKinds, e \in SeqsUpTo(BucketsChildKinds, MaxKids) }

ObjectNames == { <<"a">>, <<"d", "/", "b", "&", "c">> }

ObjectSizes == { U64Zero, <<1, 0>>, DecSub(TwoTo63, <<1>>), TwoTo63, ULONG_MAX }

\* A caller's list, as ds3_convert_file_list lays it out
BulkObject(name, size) == [name |-> Ptr(name), name_size |-> Len(name), size |-> size]

BulkObjectList(objs) ==
    [ZeroBulkObjectList EXCEPT !.list = objs, !.size = Len(objs)]

ObjectsInputs ==
    { [kind |-> "objects", objs |-> l]
        : l \in SeqsUpTo({BulkObject(n, z) : n \in ObjectNames, z \in ObjectSizes}, MaxObjs)
                    \ {<<>>} }

\* Texts a server may put in the IsTruncated element of a bucket listing
TruncatedTexts ==
    { <<"t", "r", "u", "e">>, <<"f", "a", "l", "s", "e">>,
      <<"t", "r", "u", "e", "x">>, <<"t", "r", "u">>, <<>> }

\* What a ListBucketResult element may hold besides its Name and
\* IsTruncated: Contents elements (whole, with an empty leaf, with nodes this
\* version does not know), an empty listing-level field, white space, an
\* unknown element
ListingChildKinds ==
    { [k |-> "contents", key |-> <<"o", "1">>, etag |-> <<"e", "1">>, size |-> <<"1", "0">>,
       pad |-> FALSE],
      [k |-> "contents", key |-> <<>>, etag |-> <<"e", "2">>, size |-> <<"7">>,
       pad |-> FALSE],
      [k |-> "contents", key |-> <<"o", "3">>, etag |-> <<>>, size |-> <<"7">>,
       pad |-> FALSE],
      [k |-> "contents", key |-> <<"o", "4">>, etag |-> <<"e", "4">>, size |-> <<>>,
       pad |-> FALSE],
      [k |-> "contents", key |-> <<"o", "5">>, etag |-> <<"e", "5">>, size |-> <<"2">>,
       pad |-> TRUE],
      [k |-> "prefix"],
      [k |-> "blank"],
      [k |-> "unknown"] }

\* A Contents element; a padded one has white space and an unknown element
\* among its children, and an unknown element in its Owner
ContentsNode(c) ==
    LET leaves == << Leaf("Key", c.key), Leaf("ETag", c.etag), Leaf("Size", c.size) >>
    IN  IF c.pad
        THEN Element("Contents", <<>>,
                 <<Text(<<"\n", " ">>)>> \o leaves
                    \o << Element("Owner", <<>>,
                              << Leaf("ID", <<"1">>), Leaf("Tier", <<"x">>),
                                 Leaf("DisplayName", <<"m", "e">>) >>),
                          Leaf("Note", <<"x">>) >>)
        ELSE Element("Contents", <<>>, leaves)

ListingChildNode(c) ==
    IF c.k = "contents" THEN ContentsNode(c)
    ELSE IF c.k = "prefix" THEN Leaf("Prefix", <<>>)
    ELSE IF c.k = "blank" THEN Text(<<"\n", " ">>)
    ELSE Element("Region", <<>>, <<Text(<<"x">>)>>)

BucketListingOf(d) ==
    Element("ListBucketResult", <<>>,
            << Leaf("Name", <<"b", "1">>), Leaf("IsTruncated", d.truncated) >>
                \o [i \in 1..Len(d.entries) |-> ListingChildNode(d.entries[i])])

BucketInputs ==
    { [kind |-> "bucket", truncated |-> t, entries |-> e]
        : t \in TruncatedTexts, e \in SeqsUpTo(ListingChildKinds, MaxKids) }

\* Object elements a server may list in a chunk of a job manifest
ManifestObjA == [name |-> <<"a">>, size |-> <<"1", "0">>]
ManifestObjB == [name |-> <<"d", "/", "b">>, size |-> <<"7">>]

\* What a MasterObjectList element may hold: Objects elements (chunks) with
\* and without their attributes, the white space of an indented document, an
\* element this version does not know
ManifestChildKinds ==
    { [k |-> "chunk", sid |-> <<"s", "1">>, num |-> <<"0">>, objs |-> <<ManifestObjA>>,
       pad |-> FALSE],
      [k |-> "chunk", sid |-> <<"s", "2">>, num |-> <<"1">>,
       objs |-> <<ManifestObjB, ManifestObjA>>, pad |-> TRUE],
      [k |-> "chunk", sid |-> <<>>, num |-> <<>>, objs |-> <<ManifestObjB>>, pad |-> FALSE],
      [k |-> "chunk", sid |-> <<"s", "3">>, num |-> <<"2">>, objs |-> <<>>, pad |-> FALSE],
      [k |-> "blank"],
      [k |-> "unknown"] }

ManifestJobIds == { <<"j", "1">>, <<>> }

ManifestObjectNode(o) ==
    Element("Object", <<Attr("Name", o.name), Attr("Size", o.size)>>, <<>>)

\* An Objects element; a padded one has white space and an unknown element
\* among its Object elements, and an attribute this version does not know
ManifestChunkNode(c) ==
    LET objs == [i \in 1..Len(c.objs) |-> ManifestObjectNode(c.objs[i])]
        attrs == (IF c.sid = <<>> THEN <<>> ELSE <<Attr("ServerId", c.sid)>>)
                 \o (IF c.num = <<>> THEN <<>> ELSE <<Attr("ChunkNumber", c.num)>>)
    IN  IF c.pad
        THEN Element("Objects", <<Attr("Priority", <<"h">>)>> \o attrs,
                     <<Text(<<"\n", " ">>)>> \o objs
                        \o <<Element("Note", <<>>, <<Text(<<"x">>)>>)>>)
        ELSE Element("Objects", attrs, objs)

ManifestChildNode(c) ==
    IF c.k = "chunk" THEN ManifestChunkNode(c)
    ELSE IF c.k = "blank" THEN Text(<<"\n", " ">>)
    ELSE Element("Region", <<>>, <<Text(<<"x">>)>>)

ManifestOf(d) ==
    Element("MasterObjectList", <<Attr("JobId", d.job)>>,
            [i \in 1..Len(d.entries) |-> ManifestChildNode(d.entries[i])])

ManifestInputs ==
    { [kind |-> "manifest", job |-> j, entries |-> e]
        : j \in ManifestJobIds, e \in SeqsUpTo(ManifestChildKinds, MaxKids) }

XmlIdle ==
    /\ xin = [kind |-> "none"]
    /\ xout = FaultOutcome
    /\ xstate = "idle"

\* The service listing decoder applied to the document as a server sends it
XmlDecodeService ==
    /\ xstate = "input"
    /\ xin.kind = "service"
    /\ xout' \in DecodeService(Serialize(ServiceDoc(xin)))
    /\ xstate' = "done"
    /\ UNCHANGED <<xin, hvars, avars, fvars, svars, uvars>>

\* The request body of ds3_bulk for the list, echoed back and decoded
XmlRoundTrip ==
    /\ xstate = "input"
    /\ xin.kind = "objects"
    /\ xout' \in DecodeBulk(EncodeBulk(BulkObjectList(xin.objs)))
    /\ xstate' = "done"
    /\ UNCHANGED <<xin, hvars, avars, fvars, svars, uvars>>

\* The bulk manifest decoder applied to a manifest as a server sends it
XmlDecodeBulk ==
    /\ xstate = "input"
    /\ xin.kind = "manifest"
    /\ xout' \in DecodeBulk(Serialize(ManifestOf(xin)))
    /\ xstate' = "done"
    /\ UNCHANGED <<xin, hvars, avars, fvars, svars, uvars>>

\* The bucket listing decoder applied to a listing as a server sends it
XmlDecodeBucket ==
    /\ xstate = "input"
    /\ xin.kind = "bucket"
    /\ xout' \in DecodeBucket(Serialize(BucketListingOf(xin)))
    /\ xstate' = "done"
    /\ UNCHANGED <<xin, hvars, avars, fvars, svars, uvars>>

XmlNext == XmlDecodeService \/ XmlRoundTrip \/ XmlDecodeBulk \/ XmlDecodeBucket


----------------------------------------------------------------------------
(* Clients, requests and the request factories *)

\* ds3_create_creds / ds3_create_client
TheClient ==
    [endpoint |-> "http://ds3", proxy |-> NULL,
     creds |-> [access_id |-> "id", secret_key |-> "key"]]

\* _common_request_init: g_new0 and two empty tables
_common_request_init ==
    [verb |-> "HTTP_GET", path |-> "", length |-> 0, headers |-> <<>>,
     query_params |-> <<>>, object_list |-> NULL]

ds3_init_get_service ==
    [_common_request_init EXCEPT !.verb = "HTTP_GET", !.path = "/"]

ds3_init_get_bucket(bucket_name) ==
    [_common_request_init EXCEPT !.verb = "HTTP_GET", !.path = "/" \o bucket_name]

ds3_init_get_object(bucket_name, object_name) ==
    [_common_request_init EXCEPT !.verb = "HTTP_GET",
                                 !.path = "/" \o bucket_name \o "/" \o object_name]

ds3_init_delete_object(bucket_name, object_name) ==
    [_common_request_init EXCEPT !.verb = "HTTP_DELETE",
                                 !.path = "/" \o bucket_name \o "/" \o object_name]

ds3_init_put_object(bucket_name, object_name, length) ==
    [_common_request_init EXCEPT !.verb = "HTTP_PUT",
                                 !.path = "/" \o bucket_name \o "/" \o object_name,
                                 !.length = length]

ds3_init_put_bucket(bucket_name) ==
    [_common_request_init EXCEPT !.verb = "HTTP_PUT", !.path = "/" \o bucket_name]

ds3_init_delete_bucket(bucket_name) ==
    [_common_request_init EXCEPT !.verb = "HTTP_DELETE", !.path = "/" \o bucket_name]

ds3_init_get_bulk(bucket_name, object_list) ==
    [_common_request_init EXCEPT
        !.verb = "HTTP_PUT",
        !.path = "/_rest_/bucket/" \o bucket_name,
        !.query_params = <<[key |-> "operation", value |-> "start_bulk_get"]>>,
        !.object_list = object_list]

\* ds3_init_put_bulk asking for the operation of a bulk get
ds3_init_put_bulk_GetOperation(bucket_name, object_list) ==
    ds3_init_get_bulk(bucket_name, object_list)

ds3_init_put_bulk(bucket_name, object_list) ==
    [_common_request_init EXCEPT
        !.verb = "HTTP_PUT",
        !.path = "/_rest_/bucket/" \o bucket_name,
        !.query_params = <<[key |-> "operation", value |-> "start_bulk_put"]>>,
        !.object_list = object_list]

\* The object lists a caller may attach: none, an empty one, one with objects
CallerLists ==
    { NULL,
      Ptr(BulkObjectList(<<>>)),
      Ptr(BulkObjectList(<<BulkObject(<<"a">>, <<1, 0>>)>>)),
      Ptr(BulkObjectList(<<BulkObject(<<"a">>, <<1, 0>>), BulkObject(<<"b">>, TwoTo63)>>)) }

NonBulkRequests ==
    { ds3_init_get_service, ds3_init_get_bucket("b1"), ds3_init_get_object("b1", "o"),
      ds3_init_delete_object("b1", "o"), ds3_init_put_object("b1", "o", 3),
      ds3_init_put_bucket("b1"), ds3_init_delete_bucket("b1") }

BulkRequests ==
    {ds3_init_get_bulk("b1", l) : l \in CallerLists}
        \cup {ds3_init_put_bulk("b1", l) : l \in CallerLists}

\* The URL of a request
MaxParams == 2

\* The orders in which g_hash_table_foreach may visit a table of n entries
VisitOrders(n) == {f \in [1..n -> 1..n] : \A i, j \in 1..n : f[i] = f[j] => i = j}

\* _hash_for_each(key, value, user_data): entries->size is read, never
\* incremented
_hash_for_each(entry, q_entries) ==
    [q_entries EXCEPT !.entries[q_entries.size + 1] = Ptr(entry.key \o "=" \o entry.value)]

RECURSIVE g_hash_table_foreach(_, _, _)
g_hash_table_foreach(table, order, q_entries) ==
    IF order = <<>> THEN q_entries
    ELSE g_hash_table_foreach(table, Tail(order), _hash_for_each(table[order[1]], q_entries))

\* g_strjoinv(separator, str_array) on a NULL-terminated array of C strings
RECURSIVE StrJoinv(_, _)
StrJoinv(separator, str_array) ==
    IF str_array = <<>> \/ str_array[1] = NULL THEN ""
    ELSE IF Len(str_array) = 1 \/ str_array[2] = NULL THEN str_array[1].v
    ELSE str_array[1].v \o separator \o StrJoinv(separator, Tail(str_array))

\* _net_gen_query_params(query_params), the table visited in the given order
_net_gen_query_params(query_params, order) ==
    IF Len(query_params) > 0
    THEN LET entries == [i \in 1..(Len(query_params) + 1) |-> NULL]
             q_entries == g_hash_table_foreach(query_params, order,
                                               [entries |-> entries, size |-> 0])
         IN  Ptr(StrJoinv("&", q_entries.entries))
    ELSE NULL

\* _net_process_request: the URLs it may hand to the transport
RequestUrls(endpoint, path, table) ==
    { LET query_params == _net_gen_query_params(table, order)
      IN  IF query_params = NULL THEN endpoint \o path
          ELSE endpoint \o path \o "?" \o query_params.v
      : order \in VisitOrders(Len(table)) }

QueryPairs ==
    { [key |-> "operation", value |-> "start_bulk_get"],
      [key |-> "marker", value |-> "m1"],
      [key |-> "prefix", value |-> "p"],
      [key |-> "max-keys", value |-> "10"] }

\* Tables of up to MaxParams parameters with distinct keys
QueryTables ==
    {t \in SeqsUpTo(QueryPairs, MaxParams) :
        \A i, j \in 1..Len(t) : t[i].key = t[j].key => i = j}

UrlInputs ==
    { [endpoint |-> e, path |-> p, query_params |-> t]
        : e \in {"http://ds3", "https://h:8080"}, p \in {"/b1", "/_rest_/bucket/b1"},
          t \in QueryTables }

UrlIdle ==
    /\ uin = [endpoint |-> "", path |-> "", query_params |-> <<>>]
    /\ url = NULL

\* The executor builds the URL of the request
UrlBuild ==
    /\ uin.endpoint # ""
    /\ url = NULL
    /\ \E u \in RequestUrls(uin.endpoint, uin.path, uin.query_params) : url' = Ptr(u)
    /\ UNCHANGED <<uin, hvars, xvars, avars, fvars, svars>>

UrlNext == UrlBuild

\* The request body of ds3_bulk handed to the transport piece by piece
MaxReads == 3

\* Buffer capacities (size * nmemb) the transport may offer
Capacities == {3, 5, 16}

SendLists ==
    { <<BulkObject(<<"a">>, <<1, 0>>)>>,
      <<BulkObject(<<"a">>, <<1, 0>>), BulkObject(<<"b">>, <<7>>)>>,
      <<BulkObject(<<"d", "/", "b", "&", "c">>, U64Zero)>> }

\* ds3_bulk: memset(&send_buff, 0, ...); send_buff.buff = xml_buff;
\* send_buff.size = strlen(send_buff.buff)
NewSendBuff(xml_buff) == [buff |-> xml_buff, size |-> Len(xml_buff), total_read |-> 0]

\* _ds3_send_xml_buff(buffer, size, nmemb, user_data) with size * nmemb =
\* capacity: the bytes copied into buffer, the return value, and the send
\* buffer afterwards
_ds3_send_xml_buff(xml_buff, capacity) ==
    LET remaining == xml_buff.size - xml_buff.total_read
        to_read == IF remaining < capacity THEN remaining ELSE capacity
    IN  [bytes |-> SubSeq(xml_buff.buff, 1, to_read), ret |-> to_read,
         xml_buff |-> xml_buff]

SendIdle ==
    /\ send_buff = NewSendBuff(<<>>)
    /\ uploaded = <<>>

\* The transport asks for the next piece of the body
SendRead(capacity) ==
    /\ send_buff.size > 0
    /\ Len(uploaded) < MaxReads
    /\ LET r == _ds3_send_xml_buff(send_buff, capacity)
       IN  /\ send_buff' = r.xml_buff
           /\ uploaded' = Append(uploaded, [capacity |-> capacity, bytes |-> r.bytes])
    /\ UNCHANGED <<hvars, xvars, avars, fvars, uvars>>

SendNext == \E capacity \in Capacities : SendRead(capacity)

\* The request factories called on their own
BucketNames == {"b1", "photos", "a.b"}

ObjectKeys == {"o", "dir/file", "x y"}

PutLengths == {0, 3}

FactoryCall(factory, bucket_name, object_name, length, object_list) ==
    [factory |-> factory, bucket_name |-> bucket_name, object_name |-> object_name,
     length |-> length, object_list |-> object_list]

FactoryCalls ==
    {FactoryCall("ds3_init_get_service", "", "", 0, NULL)}
    \cup {FactoryCall(f, b, "", 0, NULL)
            : f \in {"ds3_init_get_bucket", "ds3_init_put_bucket", "ds3_init_delete_bucket"},
              b \in BucketNames}
    \cup {FactoryCall(f, b, o, 0, NULL)
            : f \in {"ds3_init_get_object", "ds3_init_delete_object"},
              b \in BucketNames, o \in ObjectKeys}
    \cup {FactoryCall("ds3_init_put_object", b, o, n, NULL)
            : b \in BucketNames, o \in ObjectKeys, n \in PutLengths}
    \cup {FactoryCall(f, b, "", 0, l)
            : f \in {"ds3_init_get_bulk", "ds3_init_put_bulk"},
              b \in BucketNames, l \in CallerLists}

\* The factory of the call applied to its arguments
ApplyFactory(c) ==
    CASE c.factory = "ds3_init_get_service" -> ds3_init_get_service
      [] c.factory = "ds3_init_get_bucket" -> ds3_init_get_bucket(c.bucket_name)
      [] c.factory = "ds3_init_put_bucket" -> ds3_init_put_bucket(c.bucket_name)
      [] c.factory = "ds3_init_delete_bucket" -> ds3_init_delete_bucket(c.bucket_name)
      [] c.factory = "ds3_init_get_object" -> ds3_init_get_object(c.bucket_name, c.object_name)
      [] c.factory = "ds3_init_delete_object"
            -> ds3_init_delete_object(c.bucket_name, c.object_name)
      [] c.factory = "ds3_init_put_object"
            -> ds3_init_put_object(c.bucket_name, c.object_name, c.length)
      [] c.factory = "ds3_init_get_bulk" -> ds3_init_get_bulk(c.bucket_name, c.object_list)
      [] c.factory = "ds3_init_put_bulk" -> ds3_init_put_bulk(c.bucket_name, c.object_list)

ReqIdle ==
    /\ fin = FactoryCall("none", "", "", 0, NULL)
    /\ fout = NULL

\* The caller runs the factory and gets its request
ReqCreate ==
    /\ fin.factory # "none"
    /\ fout = NULL
    /\ fout' = Ptr(ApplyFactory(fin))
    /\ UNCHANGED <<fin, hvars, xvars, avars, svars, uvars>>

ReqNext == ReqCreate

Requests == {NULL} \cup {Ptr(r) : r \in NonBulkRequests \cup BulkRequests}

\* The request each operation is meant for
FactoryFor(op) ==
    CASE op = "ds3_get_service" -> ds3_init_get_service
      [] op = "ds3_get_bucket" -> ds3_init_get_bucket("b1")
      [] op = "ds3_get_object" -> ds3_init_get_object("b1", "o")
      [] op = "ds3_put_object" -> ds3_init_put_object("b1", "o", 3)
      [] op = "ds3_delete_object" -> ds3_init_delete_object("b1", "o")
      [] op = "ds3_put_bucket" -> ds3_init_put_bucket("b1")
      [] OTHER -> ds3_init_delete_bucket("b1")

\* The requests an operation is called with: its own kind or none; ds3_bulk
\* is also tried with the requests of every other factory
SimpleOps ==
    {"ds3_get_object", "ds3_put_object", "ds3_delete_object", "ds3_put_bucket",
     "ds3_delete_bucket"}

DecodeOps == {"ds3_get_service", "ds3_get_bucket", "ds3_bulk"}

Ops == SimpleOps \cup DecodeOps

RequestsFor(op) ==
    IF op = "ds3_bulk" THEN Requests ELSE {NULL, Ptr(FactoryFor(op))}

Clients == {NULL, Ptr(TheClient)}

----------------------------------------------------------------------------
(* The operations and the exchange *)

MaxApiLines == 2

\* client == NULL || request == NULL
ArgsMissing(client, request) == client = NULL \/ request = NULL

\* A list check that forgets the empty list
BulkListMissing_NullOnly(request) == request.object_list = NULL

\* request->object_list == NULL || request->object_list->size == 0
BulkListMissing(request) ==
    request.object_list = NULL \/ request.object_list.v.size = 0

\* The error an operation raises before _net_process_request is reached,
\* NULL when it raises none: the check of _internal_request_dispatcher, and
\* for ds3_bulk its own two checks
EarlyError(op, client, request) ==
    IF ArgsMissing(client, request)
    THEN _ds3_create_error("DS3_ERROR_MISSING_ARGS",
             "All arguments must be filled in for request processing", <<>>)
    ELSE IF op = "ds3_bulk" /\ BulkListMissing(request.v)
    THEN _ds3_create_error("DS3_ERROR_MISSING_ARGS",
             "The bulk command requires a list of objects to process", <<>>)
    ELSE NULL

\* curl_global_init(CURL_GLOBAL_ALL): what it leaves libcurl in
curl_global_init == {"ok", "failed"}

\* _init_curl that never sets its flag
_init_curl_LeavesFlag(flag) == [initialized |-> flag, global_init |-> ~flag]

\* _init_curl: curl_global_init runs while the flag is still clear
_init_curl(flag) == [initialized |-> TRUE, global_init |-> ~flag]

\* _net_get_verb(verb)
_net_get_verb(verb) ==
    CASE verb = "HTTP_GET" -> "GET"
      [] verb = "HTTP_PUT" -> "PUT"
      [] verb = "HTTP_POST" -> "POST"
      [] verb = "HTTP_DELETE" -> "DELETE"
      [] verb = "HTTP_HEAD" -> "HEAD"

\* _generate_signature_str with the date before the verb
_generate_signature_str_DateFirst(verb, resource_name, date, content_type, md5, amz_headers) ==
    date \o "\n" \o md5 \o "\n" \o content_type \o "\n" \o _net_get_verb(verb) \o "\n"
        \o amz_headers \o resource_name

\* _generate_signature_str (resource_name and date are never NULL here)
_generate_signature_str(verb, resource_name, date, content_type, md5, amz_headers) ==
    _net_get_verb(verb) \o "\n" \o md5 \o "\n" \o content_type \o "\n" \o date \o "\n"
        \o amz_headers \o resource_name

\* _generate_date_string: the local time of the call, to the second
_generate_date_string ==
    { "Thu, 05 Nov 2026 12:00:00 +0000", "Thu, 05 Nov 2026 12:00:01 +0000" }

\* The HMAC-SHA1 digest of data under key, and its base64 encoding, kept
\* symbolic: equal only for equal keys and equal data
g_hmac_sha1(key, data) == "hmac-sha1(" \o key \o "," \o data \o ")"

g_base64_encode(digest) == "base64(" \o digest \o ")"

\* _net_compute_signature
_net_compute_signature(creds, verb, resource_name, date, content_type, md5, amz_headers) ==
    LET signature_str == _generate_signature_str(verb, resource_name, date, content_type,
                                                 md5, amz_headers)
    IN  g_base64_encode(g_hmac_sha1(creds.secret_key, signature_str))

\* _net_process_request: the date, the signature and the two headers it
\* hands to the transport
SignedHeaders(client, request, date) ==
    LET date_header == "Date: " \o date
        signature == _net_compute_signature(client.creds, request.verb, request.path,
                                            date, "", "", "")
        auth_header == "Authorization: AWS " \o client.creds.access_id \o ":" \o signature
    IN  [signature_str |-> _generate_signature_str(request.verb, request.path, date,
                                                   "", "", ""),
         headers |-> <<auth_header, date_header>>]

CurlFailures == {"CURLE_RECV_ERROR"}

CurlResults == {"CURLE_OK", "CURLE_WRITE_ERROR"} \cup CurlFailures

curl_easy_strerror(r) == <<[t |-> "strerror", of |-> r]>>

\* The tail of _net_process_request: the error for a perform that failed
NetError(r) ==
    IF r # "CURLE_OK"
    THEN _ds3_create_error("DS3_ERROR_FAILED_REQUEST", "Request failed: ", curl_easy_strerror(r))
    ELSE NULL

CurlHandleError ==
    _ds3_create_error("DS3_ERROR_CURL_HANDLE", "Failed to create curl handle", <<>>)

\* load_xml_buff: g_byte_array_append
load_xml_buff(contents, blob) == blob \o contents

\* Operations that hand load_xml_buff to the transport
CollectsBody(op) == op \in DecodeOps

\* ds3_get_object .. ds3_delete_bucket: the dispatcher's result is the result
SimpleOpReturn(error_response) == {Outcome(error_response, NULL)}

\* ds3_get_service after the dispatcher: its result is dropped
ServiceReturn(error_response, blob) == DecodeService(blob)

\* ds3_get_bucket after the dispatcher: its result is dropped
BucketReturn(error_response, blob) == DecodeBucket(blob)

\* ds3_bulk after _net_process_request
BulkReturn(error_response, blob) ==
    IF error_response # NULL THEN {Outcome(error_response, NULL)} ELSE DecodeBulk(blob)

\* How the operation ends once the request has or has not been processed
Finish(op, error_response, blob) ==
    IF op = "ds3_get_service" THEN ServiceReturn(error_response, blob)
    ELSE IF op = "ds3_get_bucket" THEN BucketReturn(error_response, blob)
    ELSE IF op = "ds3_bulk" THEN BulkReturn(error_response, blob)
    ELSE SimpleOpReturn(error_response)

\* Documents a server may answer with
BucketDoc ==
    Element("ListBucketResult", <<>>,
        << Leaf("Name", <<"b", "1">>), Leaf("IsTruncated", <<"f", "a", "l", "s", "e">>),
           Element("Contents", <<>>, <<Leaf("Key", <<"o">>), Leaf("Size", <<"1", "0">>)>>) >>)

ManifestDoc ==
    Element("MasterObjectList", <<Attr("JobId", <<"j", "1">>)>>,
        << Element("Objects", <<Attr("ServerId", <<"s">>), Attr("ChunkNumber", <<"0">>)>>,
               <<Element("Object", <<Attr("Name", <<"a">>), Attr("Size", <<"1", "0">>)>>, <<>>)>>) >>)

ListingOf(entries) ==
    ServiceDoc([kind |-> "service", owner |-> [id |-> <<"1">>, name |-> <<"m", "e">>],
                entries |-> entries])

ServerBodies ==
    LET good == Serialize(ListingOf(<<[k |-> "bucket", name |-> <<"b", "1">>,
                                        date |-> <<"2", "0", "1", "5">>]>>))
    IN  { <<>>,
          good,
          SubSeq(good, 1, Len(good) - 1),
          Serialize(ListingOf(<<[k |-> "bucket", name |-> <<>>, date |-> <<"2", "0", "1", "5">>]>>)),
          Serialize(BucketDoc),
          Serialize(ManifestDoc) }

ApiHdrLines ==
    { StatusLine(200, <<wOK>>),
      HeaderLine(<<"A">>, <<"1">>),
      <<"J", "u", "n", "k">> \o CRLF }

\* given: the request as it was when the caller made the call; request: the
\* same object as it is now
NoCall == [op |-> "none", client |-> NULL, request |-> NULL, given |-> NULL]

NothingDone == [encoded |-> FALSE, init |-> FALSE, exchange |-> FALSE]

NothingSent == [url |-> "", signature_str |-> "", headers |-> <<>>]

ApiIdle ==
    /\ pc = "idle"
    /\ call = NoCall
    /\ wire = <<>>
    /\ received = <<>>
    /\ res = "none"
    /\ result = Outcome(NULL, NULL)
    /\ did = NothingDone
    /\ sent = NothingSent

\* The operation returns (or faults) with one of the outcomes
Ends(outcomes) ==
    \E o \in outcomes :
        /\ result' = o
        /\ pc' = IF o.fault THEN "fault" ELSE "returned"

\* The caller invokes an operation; the step runs it up to curl_easy_perform,
\* or to its return when it does not get that far.
ApiCall(op, client, request) ==
    /\ pc = "idle"
    /\ LET early == EarlyError(op, client, request)
       IN  IF early # NULL
           THEN /\ call' = [op |-> op, client |-> client, request |-> request,
                           given |-> request]
                /\ did' = NothingDone
                /\ Ends(Finish(op, early, <<>>))
                /\ UNCHANGED <<initialized, curl_global, wire, received, res, sent, hvars>>
           ELSE LET body == IF op = "ds3_bulk"
                            THEN EncodeBulk(request.v.object_list.v)
                            ELSE <<>>
                    req == IF op = "ds3_bulk"
                           THEN [request.v EXCEPT !.length = Len(body)]
                           ELSE request.v
                    init == _init_curl(initialized)
                IN  /\ call' = [op |-> op, client |-> client, request |-> Ptr(req),
                               given |-> request]
                    /\ initialized' = init.initialized
                    /\ curl_global' \in IF init.global_init
                                        THEN curl_global_init
                                        ELSE {curl_global}
                    /\ \E handle \in BOOLEAN :
                        IF handle
                        THEN /\ did' = [encoded |-> op = "ds3_bulk", init |-> init.global_init,
                                        exchange |-> TRUE]
                             /\ pc' = "perform"
                             /\ wire' \in ServerBodies
                             /\ response_data' = InitResponseData
                             /\ delivered' = <<>>
                             /\ \E date \in _generate_date_string :
                                \E u \in RequestUrls(client.v.endpoint, req.path,
                                                      req.query_params) :
                                    sent' = [url |-> u] @@ SignedHeaders(client.v, req, date)
                             /\ UNCHANGED <<received, res, result, hstate>>
                        ELSE /\ did' = [encoded |-> op = "ds3_bulk", init |-> init.global_init,
                                        exchange |-> FALSE]
                             /\ Ends(Finish(op, CurlHandleError, <<>>))
                             /\ UNCHANGED <<wire, received, res, sent, hvars>>
    /\ UNCHANGED <<xvars, fvars, svars, uvars>>

\* curl_easy_perform returns r and the operation runs to its end
PerformEnds(r) ==
    /\ res' = r
    /\ Ends(Finish(call.op, NetError(r), received))

\* The transport hands one header line of the response to _process_header_line
ApiHeaderLine(l) ==
    /\ pc = "perform"
    /\ received = <<>>
    /\ Len(delivered) < MaxApiLines
    /\ \E r \in _process_header_line(response_data, l) :
        /\ response_data' = r.rd
        /\ delivered' = Append(delivered, l)
        /\ IF r.fault
           THEN pc' = "fault" /\ result' = FaultOutcome /\ UNCHANGED res
           ELSE IF r.ret # Len(l)
           THEN PerformEnds("CURLE_WRITE_ERROR")
           ELSE UNCHANGED <<pc, result, res>>
    /\ UNCHANGED <<initialized, curl_global, call, wire, received, did, sent, hstate, xvars, fvars, svars, uvars>>

\* The transport hands the next n body bytes to the write callback
ApiBodyChunk(n) ==
    /\ pc = "perform"
    /\ n \in 1..Len(wire)
    /\ \/ n = Len(wire)
       \/ CollectsBody(call.op) /\ received = <<>> /\ n = (Len(wire) + 1) \div 2
    /\ received' = IF CollectsBody(call.op)
                   THEN load_xml_buff(SubSeq(wire, 1, n), received)
                   ELSE received
    /\ wire' = SubSeq(wire, n + 1, Len(wire))
    /\ UNCHANGED <<initialized, curl_global, pc, call, res, result, did, sent, hvars, xvars, fvars, svars, uvars>>

\* curl_easy_perform returns: CURLE_OK once the body is through, a failure
\* at any point
ApiPerformReturn(r) ==
    /\ pc = "perform"
    /\ r = "CURLE_OK" => wire = <<>>
    /\ PerformEnds(r)
    /\ UNCHANGED <<initialized, curl_global, call, wire, received, did, sent, hvars, xvars, fvars, svars, uvars>>

\* The caller has looked at the outcome and is ready for the next call
ApiRelease ==
    /\ pc = "returned"
    /\ pc' = "idle"
    /\ call' = NoCall
    /\ wire' = <<>>
    /\ received' = <<>>
    /\ res' = "none"
    /\ result' = Outcome(NULL, NULL)
    /\ did' = NothingDone
    /\ sent' = NothingSent
    /\ response_data' = InitResponseData
    /\ delivered' = <<>>
    /\ UNCHANGED <<initialized, curl_global, hstate, xvars, fvars, svars, uvars>>

Init ==
    /\ initialized = FALSE
    /\ curl_global = "none"
    /\ ApiIdle
    /\ HdrIdle
    /\ XmlIdle
    /\ ReqIdle
    /\ SendIdle
    /\ UrlIdle

Next ==
    \/ \E op \in Ops, client \in Clients : \E request \in RequestsFor(op) :
            ApiCall(op, client, request)
    \/ \E l \in ApiHdrLines : ApiHeaderLine(l)
    \/ \E n \in 1..Len(wire) : ApiBodyChunk(n)
    \/ \E r \in CurlResults \ {"CURLE_WRITE_ERROR"} : ApiPerformReturn(r)
    \/ ApiRelease

Spec == Init /\ [][Next]_vars

----------------------------------------------------------------------------
(* The header parser and the codec run on their own *)

HdrInit == HdrIdle /\ initialized = FALSE /\ curl_global = "none" /\ ApiIdle /\ XmlIdle /\ ReqIdle
           /\ SendIdle /\ UrlIdle
    /\ UrlIdle

SpecHdr == HdrInit /\ [][HdrNext]_vars

XmlInit ==
    /\ xin \in ServiceInputs \cup ObjectsInputs \cup ManifestInputs \cup BucketInputs
    /\ xout = FaultOutcome
    /\ xstate = "input"
    /\ initialized = FALSE
    /\ curl_global = "none"
    /\ ApiIdle
    /\ HdrIdle
    /\ ReqIdle
    /\ SendIdle
    /\ UrlIdle

SpecXml == XmlInit /\ [][XmlNext]_vars

ReqInit ==
    /\ fin \in FactoryCalls
    /\ fout = NULL
    /\ initialized = FALSE
    /\ curl_global = "none"
    /\ ApiIdle
    /\ HdrIdle
    /\ XmlIdle
    /\ SendIdle
    /\ UrlIdle

SpecReq == ReqInit /\ [][ReqNext]_vars

SendInit ==
    /\ \E l \in SendLists : send_buff = NewSendBuff(EncodeBulk(BulkObjectList(l)))
    /\ uploaded = <<>>
    /\ initialized = FALSE
    /\ curl_global = "none"
    /\ ApiIdle
    /\ HdrIdle
    /\ XmlIdle
    /\ ReqIdle
    /\ UrlIdle

SpecSend == SendInit /\ [][SendNext]_vars

UrlInit ==
    /\ uin \in UrlInputs
    /\ url = NULL
    /\ initialized = FALSE
    /\ curl_global = "none"
    /\ ApiIdle
    /\ HdrIdle
    /\ XmlIdle
    /\ ReqIdle
    /\ SendIdle

SpecUrl == UrlInit /\ [][UrlNext]_vars

----------------------------------------------------------------------------
(* Claims about the header parser (checked under SpecHdr) *)

\* The status message a status line's words stand for: the words separated
\* by single spaces.
RECURSIVE ExpectedMessage(_)
ExpectedMessage(ws) ==
    IF Len(ws) = 1 THEN ws[1]
    ELSE ws[1] \o <<" ">> \o ExpectedMessage(Tail(ws))

IsProvisional(l) == l = ContinueLine \/ l = CRLF

\* C6: a line "HTTP/1.1 <code> <words...>" with an HTTP status code other
\* than 100, received while the parser awaits the status line, is consumed,
\* records the code as an integer and the words rejoined with single spaces
\* as the message, and moves the parser to reading headers.
C6_StatusLineRecorded ==
    [][\A s \in StatusShapes :
         (/\ hstate = "recv"
          /\ response_data.header_count < 1
          /\ delivered' = Append(delivered, StatusLine(s.code, s.words)))
         => (/\ hstate' = "recv"
             /\ response_data'.status_code = s.code
             /\ response_data'.status_message = Ptr(ExpectedMessage(s.words))
             /\ response_data'.header_count = 1
             /\ response_data'.headers = response_data.headers)]_hvars

C6_Witness ==
    /\ delivered = <<StatusLine(404, <<wNot, wFound>>)>>
    /\ response_data.status_code = 404
    /\ response_data.status_message = Ptr(wNot \o <<" ">> \o wFound)

\* C7: as long as only "HTTP/1.1 100 Continue" lines and blank lines have
\* arrived, the parser state is the initial one and the parser still awaits
\* the status line; the first other status line after them sets the final
\* status code and message.
C7_ContinueIgnored ==
    /\ (\A i \in 1..Len(delivered) : IsProvisional(delivered[i]))
           => (response_data = InitResponseData /\ hstate = "recv")
    /\ \A s \in StatusShapes :
           (/\ delivered # <<>>
            /\ delivered[Len(delivered)] = StatusLine(s.code, s.words)
            /\ \A i \in 1..(Len(delivered) - 1) : IsProvisional(delivered[i]))
           => (/\ hstate = "recv"
               /\ response_data.status_code = s.code
               /\ response_data.status_message = Ptr(ExpectedMessage(s.words))
               /\ response_data.header_count = 1
               /\ response_data.headers = <<>>)

C7_Witness ==
    /\ delivered = <<ContinueLine, CRLF, ContinueLine, StatusLine(201, <<wCreated>>)>>
    /\ response_data.status_code = 201
    /\ response_data.status_message = Ptr(wCreated)

ShapeOf(l) == CHOOSE h \in HeaderShapes : HeaderLine(h.name, h.value) = l

IsHeaderForm(l) == \E h \in HeaderShapes : HeaderLine(h.name, h.value) = l

\* The last value delivered for name n among lines 2 .. Len(ls)
LastValue(ls, n) ==
    LET idx == {i \in 2..Len(ls) : ShapeOf(ls[i]).name = n}
        last == CHOOSE i \in idx : \A j \in idx : j <= i
    IN  ShapeOf(ls[last]).value

\* C8: after the status line, for any sequence of "name: value" lines, the
\* header map holds exactly one entry per distinct name, whose name is the
\* text before the first ": ", whose value is everything after it, and which
\* holds the value of the last line of that name.
C8_OneEntryPerName ==
    (/\ hstate = "recv"
     /\ Len(delivered) >= 1
     /\ \E s \in StatusShapes : delivered[1] = StatusLine(s.code, s.words)
     /\ \A i \in 2..Len(delivered) : IsHeaderForm(delivered[i]))
    => LET tbl == response_data.headers
           names == {ShapeOf(delivered[i]).name : i \in 2..Len(delivered)}
       IN  /\ \A i \in 1..Len(tbl) : tbl[i].hdr.key \in names
           /\ \A n \in names :
                 /\ Cardinality({i \in 1..Len(tbl) : tbl[i].hdr.key = n}) = 1
                 /\ \A i \in 1..Len(tbl) :
                       tbl[i].hdr.key = n => tbl[i].hdr.value = LastValue(delivered, n)

\* A line of the shape of a final status line
IsStatusForm(l) == \E s \in StatusShapes : l = StatusLine(s.code, s.words)

\* The status line has been read and a blank line has come after it
HeadersComplete ==
    \E i, j \in 1..Len(delivered) :
        i < j /\ IsStatusForm(delivered[i]) /\ delivered[j] = CRLF

\* C19: a blank line received while the parser awaits the status line is
\* accepted and leaves the parser state unchanged; a blank line received
\* after the status line has been read completes the headers: lines that
\* arrive later in the same exchange are no longer interpreted as headers of
\* the response.
C19_BlankLineEndsHeaders ==
    [][ /\ (/\ hstate = "recv"
            /\ response_data.header_count < 1
            /\ delivered' = Append(delivered, CRLF))
           => (hstate' = "recv" /\ response_data' = response_data)
        /\ (/\ hstate = "recv"
            /\ HeadersComplete
            /\ delivered' # delivered)
           => (/\ response_data'.headers = response_data.headers
               /\ response_data'.header_count = response_data.header_count) ]_hvars

\* The token where a status line has its code
CodeToken(l) ==
    LET split_result == g_strsplit(g_strchomp(l), <<" ">>, 1000)
    IN  IF Len(split_result) < 2 THEN NULL ELSE Ptr(split_result[2])

IsNumber(tok) == tok # <<>> /\ \A i \in 1..Len(tok) : IsDigit(tok[i])

\* C20: while the parser awaits the status line, a non-empty line that does
\* not begin with "HTTP/1.1", or whose status-code token is not a number, is
\* a fatal parse error: the parser returns 0 bytes consumed, which aborts the
\* transfer, and leaves status code, status message, header count and header
\* map unchanged.
C20_MalformedStatusLineAborts ==
    [][\A l \in HdrLines :
         (/\ hstate = "recv"
          /\ response_data.header_count < 1
          /\ delivered' = Append(delivered, l)
          /\ g_strchomp(l) # <<>>
          /\ \/ ~g_str_has_prefix(l, HTTP11)
             \/ (CodeToken(l) # NULL /\ ~IsNumber(CodeToken(l).v)))
         => (hstate' = "abort" /\ response_data' = response_data)]_hvars

----------------------------------------------------------------------------
(* Claims about the codec (checked under SpecXml) *)

BucketEntries(d) == SelectSeq(d.entries, LAMBDA c : c.k = "bucket")

\* C9: decoding a ListAllMyBucketsResult document yields the owner's id and
\* display name and exactly one bucket entry per Bucket element under Buckets,
\* in document order, each with that element's Name and CreationDate text; the
\* bucket count equals the number of Bucket elements.  (Stated for documents
\* whose Bucket elements all carry text.)
C9_ServiceListingDecoded ==
    (/\ xstate = "done"
     /\ xin.kind = "service"
     /\ \A i \in 1..Len(xin.entries) : xin.entries[i].k = "bucket" => xin.entries[i].name # <<>>)
    => /\ ~xout.fault
       /\ xout.error = NULL
       /\ xout.response # NULL
       /\ LET r == xout.response.v
              want == BucketEntries(xin)
          IN  /\ r.owner # NULL
              /\ r.owner.v.id = Ptr(xin.owner.id)
              /\ r.owner.v.name = Ptr(xin.owner.name)
              /\ r.num_buckets = Len(want)
              /\ Len(r.buckets) = Len(want)
              /\ \A i \in 1..Len(want) :
                    /\ r.buckets[i].name = Ptr(want[i].name)
                    /\ r.buckets[i].creation_date = Ptr(want[i].date)

\* All objects of a decoded manifest, chunk after chunk
RECURSIVE ManifestObjects(_)
ManifestObjects(chunks) ==
    IF chunks = <<>> THEN <<>> ELSE chunks[1].list \o ManifestObjects(Tail(chunks))

\* C10: encoding a non-empty list of BulkObjects into the outbound manifest
\* and decoding the produced XML with the bulk manifest decoder yields a
\* manifest whose objects, read in order, have the names and sizes of the
\* original list in the original order.
C10_BulkRoundTrip ==
    (xstate = "done" /\ xin.kind = "objects")
    => /\ ~xout.fault
       /\ xout.error = NULL
       /\ xout.response # NULL
       /\ LET got == ManifestObjects(xout.response.v.list)
          IN  /\ Len(got) = Len(xin.objs)
              /\ \A i \in 1..Len(got) :
                    /\ got[i].name = xin.objs[i].name
                    /\ got[i].size = xin.objs[i].size

C10_Witness ==
    /\ xstate = "done"
    /\ xin.kind = "objects"
    /\ Len(xin.objs) = 2
    /\ xin.objs[1].size = ULONG_MAX
    /\ xin.objs[2].size = <<1, 0>>
    /\ xin.objs[1].name # xin.objs[2].name
    /\ xout.response # NULL
    /\ Len(ManifestObjects(xout.response.v.list)) = 2

\* The chunks a manifest document describes, in document order
ManifestChunks(d) == SelectSeq(d.entries, LAMBDA c : c.k = "chunk")

\* Elements called name in a list of nodes and below them
RECURSIVE CountNamed(_, _)
CountNamed(nodes, name) ==
    IF nodes = <<>> THEN 0
    ELSE (IF nodes[1].name = name THEN 1 ELSE 0)
         + CountNamed(nodes[1].kids, name) + CountNamed(Tail(nodes), name)

\* C11: decoding a MasterObjectList response yields the root's JobId, one
\* chunk per Objects child element in document order, each with that
\* element's ServerId and ChunkNumber when present, and in each chunk one
\* entry per nested Object element; the number of decoded objects over all
\* chunks equals the number of Object elements in the response.
C11_ManifestDecoded ==
    (xstate = "done" /\ xin.kind = "manifest")
    => /\ ~xout.fault
       /\ xout.error = NULL
       /\ xout.response # NULL
       /\ LET r == xout.response.v
              want == ManifestChunks(xin)
          IN  /\ r.job_id = (IF xin.job = <<>> THEN NULL ELSE Ptr(xin.job))
              /\ r.list_size = Len(want)
              /\ Len(r.list) = Len(want)
              /\ \A i \in 1..Len(want) :
                    /\ r.list[i].server_id
                          = (IF want[i].sid = <<>> THEN NULL ELSE Ptr(want[i].sid))
                    /\ r.list[i].chunk_number
                          = (IF want[i].num = <<>> THEN U64Zero
                             ELSE CharsToDigits(want[i].num))
                    /\ r.list[i].size = Len(want[i].objs)
                    /\ Len(r.list[i].list) = Len(want[i].objs)
                    /\ \A j \in 1..Len(want[i].objs) :
                          /\ r.list[i].list[j].name = Ptr(want[i].objs[j].name)
                          /\ r.list[i].list[j].size = CharsToDigits(want[i].objs[j].size)
              /\ Len(ManifestObjects(r.list)) = CountNamed(<<ManifestOf(xin)>>, "Object")

\* Two chunks of different sizes, the second with white space and unknown
\* nodes around its Object elements, were decoded
C11_Witness ==
    /\ xstate = "done"
    /\ xin.kind = "manifest"
    /\ Len(xin.entries) = 2
    /\ xin.entries[1].k = "chunk" /\ xin.entries[2].k = "chunk"
    /\ ~xin.entries[1].pad /\ Len(xin.entries[1].objs) = 1
    /\ xin.entries[2].pad /\ Len(xin.entries[2].objs) = 2
    /\ xout.response # NULL
    /\ xout.response.v.list_size = 2
    /\ Len(ManifestObjects(xout.response.v.list)) = 3

\* C16: when a bucket listing is decoded, the truncated flag is true if and
\* only if the text of the IsTruncated element is exactly "true"; any other
\* text, also one that merely starts with "true", gives false.
C16_TruncatedExact ==
    (/\ xstate = "done"
     /\ xin.kind = "bucket"
     /\ ~xout.fault
     /\ xout.response # NULL)
    => (xout.response.v.is_truncated <=> xin.truncated = <<"t", "r", "u", "e">>)

\* The document a codec input describes, and the decoder it is meant for
DocOf(d) ==
    CASE d.kind = "service" -> ServiceDoc(d)
      [] d.kind = "bucket" -> BucketListingOf(d)
      [] d.kind = "manifest" -> ManifestOf(d)

DecoderOf(d, blob) ==
    CASE d.kind = "service" -> DecodeService(blob)
      [] d.kind = "bucket" -> DecodeBucket(blob)
      [] d.kind = "manifest" -> DecodeBulk(blob)

\* The leaf elements the decoders read
LeafNames ==
    {"Name", "CreationDate", "ID", "DisplayName", "Key", "ETag", "LastModified",
     "StorageClass", "Size", "IsTruncated", "Marker", "MaxKeys", "Delimiter",
     "NextMarker", "Prefix"}

IsEmptyLeaf(n) == n.name \in LeafNames /\ n.kids = <<>>

\* The tree without its leaf elements that have no text
RECURSIVE WithoutEmptyLeaves(_)
WithoutEmptyLeaves(node) ==
    LET kept == SelectSeq(node.kids, LAMBDA n : ~IsEmptyLeaf(n))
    IN  [node EXCEPT !.kids = [i \in 1..Len(kept) |-> WithoutEmptyLeaves(kept[i])]]

\* C17: a leaf element the service and bucket listing decoders read that is
\* present but has no text yields an absent field: the decode does not fail or
\* fault, and its result is that of decoding the document without the empty
\* elements.
C17_EmptyLeafAbsent ==
    (/\ xstate = "done"
     /\ xin.kind \in {"service", "bucket"}
     /\ WithoutEmptyLeaves(DocOf(xin)) # DocOf(xin))
    => /\ ~xout.fault
       /\ xout.error = NULL
       /\ xout \in DecoderOf(xin, Serialize(WithoutEmptyLeaves(DocOf(xin))))

\* The element and attribute names the three decoders know
ElementNames ==
    LeafNames \cup {"ListAllMyBucketsResult", "ListBucketResult", "MasterObjectList",
                    "Owner", "Buckets", "Bucket", "Contents", "Objects", "Object"}

AttributeNames == {"JobId", "ServerId", "ChunkNumber", "Name", "Size"}

IsUnknownElement(n) == ~IsText(n) /\ n.name \notin ElementNames

\* The tree without the elements and attributes of unknown names
RECURSIVE WithoutUnknown(_)
WithoutUnknown(node) ==
    LET kept == SelectSeq(node.kids, LAMBDA n : ~IsUnknownElement(n))
    IN  [node EXCEPT !.kids = [i \in 1..Len(kept) |-> WithoutUnknown(kept[i])],
                     !.attrs = SelectSeq(@, LAMBDA a : a.name \in AttributeNames)]

\* C18: in all three decoders an element or attribute of an unrecognized name,
\* at any level, is skipped: the decode succeeds and its result, the bucket,
\* object and chunk counts included, is that of decoding the document with the
\* element or attribute removed.  (Stated for documents whose leaf elements
\* all have text.)
C18_UnknownSkipped ==
    (/\ xstate = "done"
     /\ xin.kind \in {"service", "bucket", "manifest"}
     /\ WithoutUnknown(DocOf(xin)) # DocOf(xin)
     /\ WithoutEmptyLeaves(DocOf(xin)) = DocOf(xin))
    => /\ ~xout.fault
       /\ xout.error = NULL
       /\ xout \in DecoderOf(xin, Serialize(WithoutUnknown(DocOf(xin))))

----------------------------------------------------------------------------
(* Claims about the operations (checked under Spec) *)

CallMade == pc \in {"perform", "returned", "fault"}

ErrorCode == IF result.error = NULL THEN "none" ELSE result.error.v.code

\* C1: every exchange-performing operation called with an absent client or
\* an absent request returns an error whose code is MISSING_ARGS, and in
\* that call neither the transport initialization nor a network exchange
\* takes place.
C1_MissingArgsRejected ==
    (CallMade /\ (call.client = NULL \/ call.request = NULL))
    => /\ pc = "returned"
       /\ ErrorCode = "DS3_ERROR_MISSING_ARGS"
       /\ ~did.init
       /\ ~did.exchange

\* C2: for every operation, ds3_get_service and ds3_get_bucket included, an
\* exchange whose perform step returns a non-OK result (an abort by the
\* header callback included) makes the operation return a FAILED_REQUEST
\* error that carries the transport's diagnostic text.
C2_TransportFailureReported ==
    (CallMade /\ did.exchange /\ res \notin {"none", "CURLE_OK"})
    => /\ pc = "returned"
       /\ ErrorCode = "DS3_ERROR_FAILED_REQUEST"
       /\ result.error.v.message.appended = curl_easy_strerror(res)

\* C3: every call of ds3_get_service, ds3_get_bucket or ds3_bulk ends in
\* exactly one of two outcomes: no error and a response stored in the
\* out-parameter, or one error and the out-parameter unwritten.
C3_ExactlyOneOutcome ==
    (call.op \in DecodeOps /\ pc \in {"returned", "fault"})
    => /\ pc = "returned"
       /\ \/ result.error = NULL /\ result.response # NULL
          \/ result.error # NULL /\ result.response = NULL

ExpectedRoot(op) ==
    CASE op = "ds3_get_service" -> "ListAllMyBucketsResult"
      [] op = "ds3_get_bucket" -> "ListBucketResult"
      [] OTHER -> "MasterObjectList"

\* The operation has come to decode what it received: always for the two
\* listings, after a successful exchange for ds3_bulk
DecodeReached ==
    /\ call.op \in DecodeOps
    /\ pc = "returned" \/ (pc = "fault" /\ res # "none")
    /\ call.op = "ds3_bulk" => res = "CURLE_OK"

IsPrefix(a, b) == Len(a) <= Len(b) /\ SubSeq(b, 1, Len(a)) = a

\* C4: in each of the three decode operations a body that does not parse as
\* XML, or whose root element is not the expected one, makes the operation
\* return an INVALID_XML error whose message contains the raw body, and no
\* response is produced.
C4_InvalidXmlReported ==
    (/\ DecodeReached
     /\ \/ xmlParseMemory(received) = NULL
        \/ xmlParseMemory(received).v.name # ExpectedRoot(call.op))
    => /\ pc = "returned"
       /\ ErrorCode = "DS3_ERROR_INVALID_XML"
       /\ IsPrefix(received, result.error.v.message.appended)
       /\ result.response = NULL

C4_Witness ==
    /\ pc = "returned"
    /\ call.op = "ds3_bulk"
    /\ res = "CURLE_OK"
    /\ received = Serialize(BucketDoc)
    /\ ErrorCode = "DS3_ERROR_INVALID_XML"
    /\ IsPrefix(received, result.error.v.message.appended)

\* C5: ds3_bulk called with a request whose object list is absent or has
\* size 0 (every request of a non-bulk factory among them) returns a
\* MISSING_ARGS error before it encodes XML, initializes the transport or
\* performs an exchange, and leaves the out-parameter unwritten.
C5_BulkNeedsObjects ==
    (/\ CallMade
     /\ call.op = "ds3_bulk"
     /\ call.request # NULL
     /\ \/ call.request.v.object_list = NULL
        \/ call.request.v.object_list.v.size = 0)
    => /\ pc = "returned"
       /\ ErrorCode = "DS3_ERROR_MISSING_ARGS"
       /\ ~did.encoded
       /\ ~did.init
       /\ ~did.exchange
       /\ result.response = NULL

C5_Witness ==
    /\ pc = "returned"
    /\ call.op = "ds3_bulk"
    /\ call.client # NULL
    /\ call.request = Ptr(ds3_init_put_bulk("b1", Ptr(BulkObjectList(<<>>))))
    /\ ErrorCode = "DS3_ERROR_MISSING_ARGS"


\* How often the object (name and size) occurs in a list of BulkObjects
Occurrences(objs, o) ==
    Cardinality({i \in 1..Len(objs) : objs[i].name = o.name /\ objs[i].size = o.size})

\* C12: for every manifest ds3_bulk returns without error, the number of
\* objects over all its chunks equals the number of objects in the
\* BulkObjectList of the submitted request, and the chunks together hold
\* exactly the submitted objects.
C12_ManifestMatchesRequest ==
    (/\ pc = "returned"
     /\ call.op = "ds3_bulk"
     /\ result.error = NULL
     /\ result.response # NULL)
    => LET got == ManifestObjects(result.response.v.list)
           obj_list == call.request.v.object_list.v
           submitted == SubSeq(obj_list.list, 1, obj_list.size)
       IN  /\ Len(got) = Len(submitted)
           /\ \A i \in 1..Len(submitted) : Occurrences(got, submitted[i]) = Occurrences(submitted, submitted[i])


\* The name of each verb as it is written in a request line
VerbNames ==
    [HTTP_GET |-> "GET", HTTP_PUT |-> "PUT", HTTP_POST |-> "POST",
     HTTP_DELETE |-> "DELETE", HTTP_HEAD |-> "HEAD"]

\* C13: for every exchange the executor signs exactly the string
\* VERB \n \n \n date \n path, with the name of the request's verb, the
\* request's path (no query string) and the timestamp that the Date header of
\* the same exchange carries; the Authorization header is "AWS " access_id ":"
\* signature, and the signature is a function of the secret key and that
\* string alone.
C13_SignedString ==
    did.exchange
    => LET client == call.client.v
           request == call.request.v
       IN  /\ Len(sent.headers) = 2
           /\ \E date \in _generate_date_string :
                /\ sent.headers[2] = "Date: " \o date
                /\ sent.signature_str
                     = VerbNames[request.verb] \o "\n" \o "" \o "\n" \o "" \o "\n"
                         \o date \o "\n" \o request.path
           /\ sent.headers[1]
                = "Authorization: AWS " \o client.creds.access_id \o ":"
                    \o g_base64_encode(g_hmac_sha1(client.creds.secret_key,
                                                   sent.signature_str))

\* A bulk request, which has a query parameter, is on its way
C13_Witness ==
    /\ pc = "perform"
    /\ did.exchange
    /\ call.op = "ds3_bulk"
    /\ call.request.v.query_params # <<>>
    /\ sent.headers[2] = "Date: Thu, 05 Nov 2026 12:00:01 +0000"
    /\ sent.signature_str = "PUT\n\n\nThu, 05 Nov 2026 12:00:01 +0000\n/_rest_/bucket/b1"


\* The call is one that is rejected with MISSING_ARGS
RejectedArgs(c) ==
    \/ c.client = NULL
    \/ c.request = NULL
    \/ /\ c.op = "ds3_bulk"
       /\ \/ c.request.v.object_list = NULL
          \/ c.request.v.object_list.v.size = 0

\* C15: over any sequence of calls made one after another, the transport's
\* global initialization is invoked exactly once: in the first call that
\* reaches the executor (whether or not a handle is then acquired), never in a
\* call rejected with MISSING_ARGS and never again in a later call, also when
\* the first attempt reported failure.
C15_GlobalInitOnce ==
    [][ IF pc = "idle" /\ pc' # "idle"
        THEN /\ did'.init <=> (~RejectedArgs(call') /\ curl_global = "none")
             /\ did'.init => curl_global' # "none"
             /\ ~did'.init => curl_global' = curl_global
        ELSE /\ curl_global' = curl_global
             /\ did'.init => did.init ]_vars

\* A later exchange is under way after the initialization of an earlier call
\* had reported failure
C15_Witness ==
    /\ pc = "perform"
    /\ did.exchange
    /\ ~did.init
    /\ curl_global = "failed"
    /\ initialized

----------------------------------------------------------------------------
(* Claims about the request factories (checked under SpecReq) *)

BucketLevel ==
    {"ds3_init_get_bucket", "ds3_init_put_bucket", "ds3_init_delete_bucket"}

ObjectLevel == {"ds3_init_get_object", "ds3_init_put_object", "ds3_init_delete_object"}

BulkLevel == {"ds3_init_get_bulk", "ds3_init_put_bulk"}

\* The parts both statements of C14 share: the paths of the bucket-level
\* (other than bulk) and object-level operations and of get-service, and the
\* query parameter and object list of the bulk operations
FactoryCommon ==
    LET request == fout.v
    IN  /\ fin.factory \in BucketLevel => request.path = "/" \o fin.bucket_name
        /\ fin.factory \in ObjectLevel
              => request.path = "/" \o fin.bucket_name \o "/" \o fin.object_name
        /\ fin.factory = "ds3_init_get_service" => request.path = "/"
        /\ fin.factory \notin BulkLevel => request.query_params = <<>>
        /\ fin.factory = "ds3_init_get_bulk"
              => request.query_params = <<[key |-> "operation", value |-> "start_bulk_get"]>>
        /\ fin.factory = "ds3_init_put_bulk"
              => request.query_params = <<[key |-> "operation", value |-> "start_bulk_put"]>>
        /\ fin.factory \in BulkLevel => request.object_list = fin.object_list

\* C14 as stated: every factory produces a request whose path is "/" bucket
\* for the bucket-level operations, bulk-get and bulk-put among them, "/"
\* bucket "/" object for the object-level ones and "/" for get-service; the
\* bulk factories also set the one query parameter operation=start_bulk_get
\* or operation=start_bulk_put and attach the caller's list.
C14_FactoryPaths ==
    fout # NULL
    => /\ FactoryCommon
       /\ fin.factory \in BulkLevel => fout.v.path = "/" \o fin.bucket_name

\* C14 amended: as stated, except that the path of the bulk-get and bulk-put
\* requests is "/_rest_/bucket/" bucket.
C14_FactoryPathsAmended ==
    fout # NULL
    => /\ FactoryCommon
       /\ fin.factory \in BulkLevel => fout.v.path = "/_rest_/bucket/" \o fin.bucket_name

\* A bulk-put request was made for a bucket and a list of two objects
C14_Witness ==
    /\ fout # NULL
    /\ fin.factory = "ds3_init_put_bulk"
    /\ fin.bucket_name = "photos"
    /\ fin.object_list # NULL
    /\ fout.v.object_list.v.size = 2
    /\ fout.v.path = "/_rest_/bucket/photos"


----------------------------------------------------------------------------
(* Further claims about the operations (checked under Spec) *)

\* C21: performing an exchange with any operation, ds3_bulk included, leaves
\* every field of the request (verb, path, declared body length, headers,
\* query parameters, object list reference) as it was before the call.
C21_RequestUnchanged ==
    (CallMade /\ did.exchange) => call.request = call.given


----------------------------------------------------------------------------
(* Claims about the body-read callback (checked under SpecSend) *)

\* The bytes supplied so far, callback after callback
RECURSIVE Supplied(_)
Supplied(reads) ==
    IF reads = <<>> THEN <<>> ELSE reads[1].bytes \o Supplied(Tail(reads))

\* C22: during a ds3_bulk exchange, for any sequence of body-read callbacks
\* with any buffer capacities, the bytes the callback has supplied are, put
\* together, the serialized manifest once and in order (at every moment its
\* beginning, at most its whole length, the declared body length), each
\* callback supplies as much of the rest as its buffer takes, and once the
\* whole manifest has been supplied every further callback supplies 0 bytes.
C22_BodySuppliedOnce ==
    LET manifest == SubSeq(send_buff.buff, 1, send_buff.size)
    IN  /\ IsPrefix(Supplied(uploaded), manifest)
        /\ \A i \in 1..Len(uploaded) :
              LET before == Len(Supplied(SubSeq(uploaded, 1, i - 1)))
                  rest == Len(manifest) - before
              IN  Len(uploaded[i].bytes)
                    = (IF rest < uploaded[i].capacity THEN rest ELSE uploaded[i].capacity)


----------------------------------------------------------------------------
(* Claims about the URL (checked under SpecUrl) *)

\* The pairs of the table rendered key=value, joined by "&" in the order
RECURSIVE JoinedPairs(_, _)
JoinedPairs(table, order) ==
    IF order = <<>> THEN ""
    ELSE table[order[1]].key \o "=" \o table[order[1]].value
         \o (IF Len(order) = 1 THEN "" ELSE "&" \o JoinedPairs(table, Tail(order)))

----------------------------------------------------------------------------
(* Further claims about the codec (checked under SpecXml) *)

\* The texts of the attributes of a node that carry the given name
AttrTexts(node, name) ==
    { xmlNodeListGetString(node.attrs[i].kids)
        : i \in {j \in 1..Len(node.attrs) : node.attrs[j].name = name} }

\* The element children of a node, the indentation text left out
ElementKids(node) == SelectSeq(node.kids, LAMBDA k : k.name # "text")

\* The outbound manifest of a list of objects, as a document
OutboundDoc(objs) == xmlParseMemory(EncodeBulk(BulkObjectList(objs)))

\* The outbound manifest has one Objects element under MasterObjectList with
\* one Object element per BulkObject in the caller's order
ManifestShape(objs) ==
    LET doc == OutboundDoc(objs)
    IN  /\ doc # NULL
        /\ doc.v.name = "MasterObjectList"
        /\ Len(ElementKids(doc.v)) = 1
        /\ ElementKids(doc.v)[1].name = "Objects"
        /\ Len(ElementKids(ElementKids(doc.v)[1])) = Len(objs)
        /\ \A i \in 1..Len(objs) :
              /\ ElementKids(ElementKids(doc.v)[1])[i].name = "Object"
              /\ AttrTexts(ElementKids(ElementKids(doc.v)[1])[i], "Name") = {objs[i].name}

\* C24: the outbound manifest has one Objects element under the
\* MasterObjectList root holding one Object element per BulkObject in the
\* caller's order, and for every size in 0 .. 2^64-1 the Size attribute is
\* the unsigned decimal representation of that size.
C24_SizeUnsignedDecimal ==
    (xstate = "done" /\ xin.kind = "objects")
    => /\ ManifestShape(xin.objs)
       /\ \A i \in 1..Len(xin.objs) :
             AttrTexts(ElementKids(ElementKids(OutboundDoc(xin.objs).v)[1])[i], "Size")
                = {Ptr(DigitsToChars(xin.objs[i].size))}


----------------------------------------------------------------------------
(* Further claims about the header parser (checked under SpecHdr) *)

\* A status line other than 100 Continue has been accepted
StatusAssigned == response_data.status_message # NULL

\* C25: within one exchange the status code and the status message are
\* assigned at most once: after the first status line other than 100 has been
\* accepted, no later line given to the parser (a header line, a blank line,
\* the status line of a further response) changes them; and the header count
\* never decreases.
C25_StatusAssignedOnce ==
    [][/\ response_data'.header_count >= response_data.header_count
       /\ StatusAssigned
            => /\ response_data'.status_code = response_data.status_code
               /\ response_data'.status_message = response_data.status_message]_hvars

\* A status line, a header, the blank line and the status line of a second
\* response have been delivered, and the first status stands
C25_Witness ==
    /\ delivered = << StatusLine(404, <<wNot, wFound>>), HeaderLine(<<"A">>, <<"1">>),
                      CRLF, StatusLine(200, <<wOK>>) >>
    /\ response_data.status_code = 404
    /\ response_data.status_message = Ptr(wNot \o <<" ">> \o wFound)
    /\ response_data.header_count = 2


\* C26: once the status line has been read, every non-empty line given to the
\* header parser, a line without a ": " separator included (a bare token, the
\* status line of a second response), is processed without fault.
C26_NoFaultAfterStatus ==
    [][(StatusAssigned /\ delivered' # delivered) => hstate' # "fault"]_hvars

====
